---- MODULE Spec2Model ----
(***************************************************************************)
(* A model of the ffmpeg-bus pipeline engine of lite-nvr: the output       *)
(* muxers (output.rs), the encoder hand-off queue (encoder.rs), the        *)
(* broadcast fan-out between reader and subscribers (input.rs, decoder.rs, *)
(* bus.rs) and the Bus command loop (bus.rs).                              *)
(*                                                                         *)
(* The module holds several specifications over one set of variables; each *)
(* specification drives one part of the engine and leaves the variables of *)
(* the other parts at their initial value.                                 *)
(***************************************************************************)
EXTENDS Integers, Sequences, FiniteSets, TLC

VARIABLES
    avoutput,   \* AvOutput: have_written_header, have_written_trailer, last_dts
    writer,     \* AvOutputStreamWriter: the same flags, last_dts, dropped
    muxed,      \* what each muxer was handed: last two packets per stream, counters
    enc_up,     \* the broadcast channel the encoder forwarder is subscribed to
    enc_fwd,    \* the async forwarder of EncoderTask::start
    enc_queue,  \* the sync_channel between forwarder and encode loop
    enc_loop,   \* the blocking encoder_loop and what it published
    enc_cancel, \* EncoderTask.cancel
    enc_out,    \* EncoderTask.raw_chan: the encoder's output channel
    pipe_kind,  \* which subgraph AddOutput built for the output
    reader,     \* AvInputTask: the blocking read loop and its cancellation
    in_ch,      \* AvInputTask.raw_chan: the input channel
    mux_task,   \* the mux task of a direct remux output
    dec_fwd,    \* the async forwarder of DecoderTask::start
    dec_queue,  \* the channel between forwarder and decode loop
    dec_loop,   \* the blocking decoder_loop
    adapter,    \* the raw-video packet -> frame task of start_encoder_task
    consumer,   \* the stream AddOutput returned, and who drains it
    bus_state,  \* BusState, owned by the command loop
    handler,    \* the command being handled and where its handler stands
    bus_log,    \* what the loop has done: replies per command, outputs built
    bridge,     \* the streaming-server bridge: the frame at hand, its format check
    mixer,      \* DynamicMixerTask: its commands, sub-tasks, filter graph, output
    shared,     \* one published packet: its Arc cells, the channel's slot, the subscribers' clones
    api,        \* the callers of Bus::add_input / remove_input / add_output, the command channel, the loop
    inputs,     \* the mixer loop's inputs map (slot -> token) and the forwarding sub-tasks it spawned
    sink        \* a RawFrame / RawPacket bridge of the Pipe: its Bus stream, its RawSinkSource, the sink's reader

muxVars == <<avoutput, writer, muxed>>
encVars == <<enc_up, enc_fwd, enc_queue, enc_loop, enc_cancel, enc_out>>
feedVars == <<pipe_kind, reader, in_ch, mux_task, dec_fwd, dec_queue, dec_loop,
              adapter, consumer>>

busVars == <<bus_state, handler, bus_log>>

\* what the actions of one part leave alone
muxOthers == <<encVars, feedVars, busVars, bridge, mixer, shared, api, inputs, sink>>
encOthers == <<muxVars, feedVars, busVars, bridge, mixer, shared, api, inputs, sink>>
busOthers == <<muxVars, encVars, feedVars, bridge, mixer, shared, api, inputs, sink>>
bridgeOthers == <<muxVars, encVars, feedVars, busVars, mixer, shared, api, inputs, sink>>
mixerOthers == <<muxVars, encVars, feedVars, busVars, bridge, shared, api, inputs, sink>>
sharedOthers == <<muxVars, encVars, feedVars, busVars, bridge, mixer, api, inputs, sink>>
apiOthers == <<muxVars, encVars, feedVars, busVars, bridge, mixer, shared, inputs, sink>>
inputsOthers == <<muxVars, encVars, feedVars, busVars, bridge, mixer, shared, api, sink>>
sinkOthers == <<muxVars, encVars, feedVars, busVars, bridge, mixer, shared, api, inputs>>

vars == <<avoutput, writer, muxed, enc_up, enc_fwd, enc_queue, enc_loop, enc_cancel,
          enc_out, pipe_kind, reader, in_ch, mux_task, dec_fwd, dec_queue, dec_loop,
          adapter, consumer, bus_state, handler, bus_log, bridge, mixer, shared, api, inputs, sink>>

\* Option<T>: None is the empty tuple, Some(x) the one-element tuple.
None == <<>>
Some(x) == <<x>>
IsSome(t) == t # None
Unwrap(t) == t[1]
UnwrapOr(t, d) == IF t = None THEN d ELSE t[1]

(***************************************************************************)
(* Output muxers: AvOutput and AvOutputStreamWriter (output.rs)            *)
(***************************************************************************)

\* Bounds of the muxer model.
MaxWrites == 2
MaxTs == 2

Ts == (0 - MaxTs)..MaxTs
OptTs == {Some(t) : t \in Ts} \cup {None}

\* Time bases as <<num, den>>.
TimeBases == {<<1, 1>>, <<1, 2>>}

\* Input stream indexes handed to AvOutput::write_packet; AvOutput maps 0 and 1
\* (add_stream was called for them), 2 stands for a stream it does not know.
MuxStreams == {0, 1}
UnknownStream == 2

Abs(x) == IF x < 0 THEN 0 - x ELSE x

\* av_rescale_q with AV_ROUND_NEAR_INF: a * (bq / cq), to nearest, halves away
\* from zero.
RescaleQ(a, bq, cq) ==
    LET b == bq[1] * cq[2]
        c == bq[2] * cq[1]
        m == ((Abs(a) * b) + (c \div 2)) \div c
    IN IF a < 0 THEN 0 - m ELSE m

\* Packet::rescale_ts: an unset timestamp stays unset.
RescaleTs(t, src, dst) ==
    IF t = None THEN None ELSE Some(RescaleQ(Unwrap(t), src, dst))

\* The packets a caller may hand to write_packet: when both timestamps exist,
\* dts <= pts.
Packets ==
    {p \in [index : MuxStreams \cup {UnknownStream}, pts : OptTs, dts : OptTs,
            time_base : TimeBases] :
        (IsSome(p.pts) /\ IsSome(p.dts)) => Unwrap(p.dts) <= Unwrap(p.pts)}

\* Step 2 of AvOutput::write_packet: both unset -> 0/0, else fill the missing one.
NormaliseTs(p) ==
    CASE p.pts = None /\ p.dts = None -> [p EXCEPT !.pts = Some(0), !.dts = Some(0)]
      [] p.pts = None /\ p.dts # None -> [p EXCEPT !.pts = p.dts]
      [] p.pts # None /\ p.dts = None -> [p EXCEPT !.dts = p.pts]
      [] OTHER -> p

\* A fix-up that only repairs a DTS that went backwards, not an equal one.
NewDtsStrictlyLess(dts, last) ==
    IF IsSome(last) /\ dts < Unwrap(last) THEN Unwrap(last) + 1 ELSE dts

\* match last { Some(last) if dts <= last => last + 1, _ => dts }
NewDts(dts, last) ==
    IF IsSome(last) /\ dts <= Unwrap(last) THEN Unwrap(last) + 1 ELSE dts

\* The DTS fix-up shared by both writers: p is the packet after rescale, last the
\* last DTS of its output stream. Yields the packet handed to the muxer.
FixupDts(p, last) ==
    LET dts == UnwrapOr(p.dts, 0)
        new_dts == NewDts(dts, last)
    IN IF new_dts # dts
       THEN [p EXCEPT !.dts = Some(new_dts),
                      !.pts = IF p.pts = None \/ Unwrap(p.pts) < new_dts
                              THEN Some(new_dts) ELSE p.pts]
       ELSE p

\* What the model remembers of a packet handed to the muxer: its timestamps, the
\* DTS it arrived with (after rescale) and the stream's last_dts before it.
Handed(p, arrived, last) ==
    [pts |-> p.pts, dts |-> p.dts, arrived |-> arrived, last |-> last]

NoPacket == [pts |-> None, dts |-> None, arrived |-> None, last |-> None]

MuxLog == [prev |-> NoPacket, cur |-> NoPacket, writes |-> 0]

\* AvOutput::new
AvOutputNew ==
    [have_written_header |-> FALSE, have_written_trailer |-> FALSE,
     last_dts |-> [s \in MuxStreams |-> None], out_time_base |-> <<1, 1>>]

\* AvOutputStream::new, add_stream(stream 0), into_split
WriterNew ==
    [have_written_header |-> FALSE, have_written_trailer |-> FALSE,
     last_dts |-> None, input_stream_index |-> 0,
     out_time_base |-> <<1, 1>>, dropped |-> FALSE, task_ended |-> FALSE]

\* Nothing handed to a muxer yet; driven names the muxer a run exercises (the two
\* share no state).
MuxedNew(driven) ==
    [avoutput |-> [s \in MuxStreams |-> MuxLog],
     writer |-> MuxLog,
     calls |-> 0,
     header |-> [avoutput |-> 0, writer |-> 0],
     trailer |-> [avoutput |-> 0, writer |-> 0],
     trailer_before_header |-> FALSE,
     avoutput_task_ended |-> FALSE,
     driven |-> driven]

Push(log, h) == [prev |-> log.cur, cur |-> h, writes |-> log.writes + 1]

\* AvOutput::write_packet(input_stream_index, packet). header_ok: write_header
\* succeeded (only asked when no header was written yet).
AvOutputWritePacket(p, header_ok) ==
    /\ muxed.driven = "AvOutput"
    /\ ~muxed.avoutput_task_ended
    /\ muxed.calls < MaxWrites
    /\ IF p.index \notin MuxStreams
       THEN \* stream not found: Err, nothing changes
            /\ muxed' = [muxed EXCEPT !.calls = @ + 1]
            /\ UNCHANGED avoutput
       ELSE IF ~avoutput.have_written_header /\ ~header_ok
       THEN \* write_header()? returns the error
            /\ muxed' = [muxed EXCEPT !.calls = @ + 1]
            /\ UNCHANGED avoutput
       ELSE LET out_idx == p.index
                n == NormaliseTs(p)
                r == [n EXCEPT !.pts = RescaleTs(n.pts, p.time_base, avoutput.out_time_base),
                               !.dts = RescaleTs(n.dts, p.time_base, avoutput.out_time_base)]
                last == avoutput.last_dts[out_idx]
                w == FixupDts(r, last)
            IN /\ avoutput' = [avoutput EXCEPT
                                 !.have_written_header = TRUE,
                                 !.last_dts[out_idx] = Some(NewDts(UnwrapOr(r.dts, 0), last))]
               /\ muxed' = [muxed EXCEPT
                              !.calls = @ + 1,
                              !.header.avoutput =
                                  IF avoutput.have_written_header THEN @ ELSE @ + 1,
                              !.avoutput[out_idx] = Push(@, Handed(w, r.dts, last))]
    /\ UNCHANGED <<writer, muxOthers>>

\* A finish that writes a trailer whenever a header exists, however often called.
WriteTrailerUnguarded(o) == o.have_written_header

\* The guard of finish: if self.have_written_header && !self.have_written_trailer
WriteTrailerNow(o) == o.have_written_header /\ ~o.have_written_trailer

\* AvOutput::finish. task_end: the call is the one the mux task makes after its
\* receive loop ended (bus.rs create_mux_to_file / create_mux_to_net).
AvOutputFinishCall(task_end) ==
    /\ muxed.driven = "AvOutput"
    /\ ~muxed.avoutput_task_ended
    /\ LET write_trailer == WriteTrailerNow(avoutput)
       IN /\ avoutput' = [avoutput EXCEPT !.have_written_trailer = @ \/ write_trailer]
          /\ muxed' = [muxed EXCEPT
                         !.trailer.avoutput = IF write_trailer THEN @ + 1 ELSE @,
                         !.trailer_before_header =
                             @ \/ (write_trailer /\ muxed.header.avoutput = 0),
                         !.avoutput_task_ended = task_end]
    /\ UNCHANGED <<writer, muxOthers>>

AvOutputFinish == AvOutputFinishCall(FALSE)

\* The mux task leaves its loop (EOF or channel closed) and calls output.finish().
MuxTaskEnd == AvOutputFinishCall(TRUE)

\* AvOutputStreamWriter::write_packet(packet)
WriterWritePacket(p, header_ok) ==
    /\ muxed.driven = "AvOutputStreamWriter"
    /\ ~writer.task_ended /\ ~writer.dropped
    /\ muxed.calls < MaxWrites
    /\ IF p.index # writer.input_stream_index
       THEN \* not the stream being muxed: Ok(()), nothing written
            /\ muxed' = [muxed EXCEPT !.calls = @ + 1]
            /\ UNCHANGED writer
       ELSE IF ~writer.have_written_header /\ ~header_ok
       THEN /\ muxed' = [muxed EXCEPT !.calls = @ + 1]
            /\ UNCHANGED writer
       ELSE LET r == [p EXCEPT !.pts = RescaleTs(p.pts, p.time_base, writer.out_time_base),
                               !.dts = RescaleTs(p.dts, p.time_base, writer.out_time_base)]
                last == writer.last_dts
                w == FixupDts(r, last)
            IN /\ writer' = [writer EXCEPT
                               !.have_written_header = TRUE,
                               !.last_dts = Some(NewDts(UnwrapOr(r.dts, 0), last))]
               /\ muxed' = [muxed EXCEPT
                              !.calls = @ + 1,
                              !.header.writer =
                                  IF writer.have_written_header THEN @ ELSE @ + 1,
                              !.writer = Push(@, Handed(w, r.dts, last))]
    /\ UNCHANGED <<avoutput, muxOthers>>

\* AvOutputStreamWriter::finish, called by the mux task (task_end), by Drop (drop)
\* or by any holder of the writer.
WriterFinishCall(task_end, drop) ==
    /\ muxed.driven = "AvOutputStreamWriter"
    /\ ~writer.dropped
    /\ task_end => ~writer.task_ended
    /\ drop => writer.task_ended
    /\ LET write_trailer == WriteTrailerNow(writer)
       IN /\ writer' = [writer EXCEPT !.have_written_trailer = @ \/ write_trailer,
                                      !.task_ended = @ \/ task_end,
                                      !.dropped = drop]
          /\ muxed' = [muxed EXCEPT
                         !.trailer.writer = IF write_trailer THEN @ + 1 ELSE @,
                         !.trailer_before_header =
                             @ \/ (write_trailer /\ muxed.header.writer = 0)]
    /\ UNCHANGED <<avoutput, muxOthers>>

WriterFinish == WriterFinishCall(FALSE, FALSE)

\* The mux task leaves its loop and calls writer.finish().
WriterTaskEnd == WriterFinishCall(TRUE, FALSE)

\* impl Drop for AvOutputStreamWriter: the task returns and its writer is dropped.
WriterDrop == WriterFinishCall(FALSE, TRUE)

MuxNext ==
    \/ \E p \in Packets, header_ok \in BOOLEAN : AvOutputWritePacket(p, header_ok)
    \/ AvOutputFinish
    \/ MuxTaskEnd
    \/ \E p \in Packets, header_ok \in BOOLEAN : WriterWritePacket(p, header_ok)
    \/ WriterFinish
    \/ WriterTaskEnd
    \/ WriterDrop

(***************************************************************************)
(* Broadcast channels (tokio::sync::broadcast) and their items              *)
(***************************************************************************)

\* RawPacketCmd / RawFrameCmd: EOF, or Data(x).
EOF == <<>>
Data(x) == <<x>>
IsData(c) == c # EOF

\* A channel retains its newest items, at most its capacity; head is the position
\* of the oldest retained one. closed: every sender has been dropped.
BcNew == [buf |-> <<>>, head |-> 0, closed |-> FALSE]

BcEnd(ch) == ch.head + Len(ch.buf)

\* Sender::send with at least one receiver subscribed.
BcSend(ch, item, cap) ==
    IF Len(ch.buf) < cap
    THEN [ch EXCEPT !.buf = Append(@, item)]
    ELSE [ch EXCEPT !.buf = Append(Tail(@), item), !.head = @ + 1]

\* Receiver::recv of a receiver whose next position is pos: the position was
\* overwritten (Lagged), holds an item, or is past the end of a closed (Closed) or
\* open (Empty: recv pends) channel.
BcRecvKind(ch, pos) ==
    IF pos < ch.head THEN "Lagged"
    ELSE IF pos < BcEnd(ch) THEN "Item"
    ELSE IF ch.closed THEN "Closed"
    ELSE "Empty"

\* A receiver that is handed the newest item whatever its position.
BcItemNewest(ch, pos) == ch.buf[Len(ch.buf)]

\* The item at a retained position.
BcItem(ch, pos) == ch.buf[pos - ch.head + 1]

\* send of each item of a sequence, in order.
RECURSIVE BcSendAll(_, _, _)
BcSendAll(ch, items, cap) ==
    IF items = <<>> THEN ch
    ELSE BcSendAll(BcSend(ch, Head(items), cap), Tail(items), cap)

\* The items a codec hands out: the first n it holds, oldest first, as Data.
DataOf(held, n) == [i \in 1..n |-> Data(held[i])]

\* The receiver's next position after recv: past the item, or, after Lagged, the
\* oldest retained item.
BcNextPos(ch, pos) ==
    IF pos < ch.head THEN ch.head
    ELSE IF pos < BcEnd(ch) THEN pos + 1
    ELSE pos

(***************************************************************************)
(* Encoder worker: EncoderTask::start and encoder_loop (encoder.rs)        *)
(***************************************************************************)

\* Bounds of the encoder model. The hand-off queue holds 128 frames in the source
\* (FRAME_QUEUE_BOUND) and its upstream channel 1024 or 16; both are scaled down.
MaxFrames == 4
FRAME_QUEUE_BOUND == 2
EncUpCap == 2
EncOutCap == 2

\* The state EncoderTask::start sets up. timed: every frame of the upstream
\* carries a PTS, as the frames made from the packets of a demuxed input do
\* (frame.set_pts(packet.pts())).
EncUpNew == [ch |-> BcNew, produced |-> 0, eof_sent |-> FALSE, timed |-> TRUE]

\* The PTS a frame of the upstream may carry: one, or none.
FramePts == IF enc_up.timed THEN {Some(0)} ELSE {None, Some(0)}

EncFwdNew ==
    [pc |-> "recv", pos |-> 0, item |-> EOF, dropped_count |-> 0,
     received |-> 0, disconnected |-> 0, got_eof |-> FALSE, eof_waited |-> FALSE,
     seen |-> <<>>, lagged |-> FALSE]

\* What is remembered of the PTS the encoder synthesised: pts, the one given to
\* the last frame submitted without a PTS; before, the greatest one given to such
\* a frame that the encoder had accepted before that submission; accepted, the
\* greatest one given to such a frame accepted so far.
SynthLogNew == [pts |-> None, before |-> None, accepted |-> None]

\* Encoder::new sets frame_index to 0.
EncLoopNew ==
    [pc |-> "run", dequeued |-> 0, frame_index |-> 0, pending |-> <<>>,
     out_data |-> 0, out_eof |-> 0, data_after_eof |-> FALSE, synth |-> SynthLogNew,
     recv_err |-> FALSE, faults |-> FALSE]

\* How a drain loop (receive_packet / receive_frame until it yields nothing) can
\* end: Ok(None) => break 'outer, or Err(e) => break 'outer (recv_err). Both
\* leave the drain loop alike; a loop record with faults = FALSE does not tell
\* them apart and records every drain as ended by Ok(None).
RecvErrs(l) == IF l.faults THEN BOOLEAN ELSE {FALSE}

\* The producer of the encoder's upstream channel (decoder loop or raw-video
\* adapter) publishes the next frame.
EncUpstreamPublish ==
    /\ ~enc_up.eof_sent
    /\ enc_up.produced < MaxFrames
    /\ enc_up' = [enc_up EXCEPT !.ch = BcSend(@, Data(enc_up.produced + 1), EncUpCap),
                                !.produced = @ + 1]
    /\ UNCHANGED <<enc_fwd, enc_queue, enc_loop, enc_cancel, enc_out, encOthers>>

\* The producer publishes EOF and stops.
EncUpstreamEof ==
    /\ ~enc_up.eof_sent
    /\ enc_up' = [enc_up EXCEPT !.ch = BcSend(@, EOF, EncUpCap), !.eof_sent = TRUE]
    /\ UNCHANGED <<enc_fwd, enc_queue, enc_loop, enc_cancel, enc_out, encOthers>>

\* The stopped producer's senders are dropped.
EncUpstreamClose ==
    /\ enc_up.eof_sent
    /\ ~enc_up.ch.closed
    /\ enc_up' = [enc_up EXCEPT !.ch.closed = TRUE]
    /\ UNCHANGED <<enc_fwd, enc_queue, enc_loop, enc_cancel, enc_out, encOthers>>

\* The encode loop still holds the queue's receiver.
EncRxAlive == enc_loop.pc = "run"

\* A forwarder that sends EOF like data: try_send, dropped when the queue is full.
EofTrySend(fwd, queue) ==
    IF ~EncRxAlive THEN <<[fwd EXCEPT !.pc = "join", !.got_eof = TRUE], queue>>
    ELSE IF Len(queue) < FRAME_QUEUE_BOUND
    THEN <<[fwd EXCEPT !.got_eof = TRUE], Append(queue, EOF)>>
    ELSE <<[fwd EXCEPT !.got_eof = TRUE], queue>>

\* tx.send(EOF): blocks while the queue is full; Err when the receiver is gone.
EofSend(fwd, queue) ==
    IF ~EncRxAlive THEN <<[fwd EXCEPT !.pc = "join", !.got_eof = TRUE], queue>>
    ELSE IF Len(queue) < FRAME_QUEUE_BOUND
    THEN <<[fwd EXCEPT !.pc = "recv", !.got_eof = TRUE], Append(queue, EOF)>>
    ELSE <<[fwd EXCEPT !.pc = "send", !.item = EOF, !.got_eof = TRUE,
                       !.eof_waited = TRUE], queue>>

\* A forwarder that sends data like EOF: blocking send.
DataSendBlocking(fwd, queue, frame) ==
    IF ~EncRxAlive THEN <<[fwd EXCEPT !.pc = "join", !.disconnected = @ + 1], queue>>
    ELSE IF Len(queue) < FRAME_QUEUE_BOUND THEN <<fwd, Append(queue, frame)>>
    ELSE <<[fwd EXCEPT !.pc = "send", !.item = frame], queue>>

\* tx.try_send(frame): Ok, Full (dropped, counted) or Disconnected (break).
DataTrySend(fwd, queue, frame) ==
    IF ~EncRxAlive THEN <<[fwd EXCEPT !.pc = "join", !.disconnected = @ + 1], queue>>
    ELSE IF Len(queue) < FRAME_QUEUE_BOUND THEN <<fwd, Append(queue, frame)>>
    ELSE <<[fwd EXCEPT !.dropped_count = @ + 1], queue>>

\* One pass of the forwarder's select! loop on the branch
\* Ok(frame) = encoder_receiver.recv(). A recv that yields Err (Lagged or Closed)
\* does not match the pattern: the branch is disabled and the select! is left
\* waiting for cancellation alone.
EncForwarderRecv ==
    /\ enc_fwd.pc = "recv"
    /\ BcRecvKind(enc_up.ch, enc_fwd.pos) # "Empty"
    /\ LET kind == BcRecvKind(enc_up.ch, enc_fwd.pos)
           moved == [enc_fwd EXCEPT !.pos = BcNextPos(enc_up.ch, enc_fwd.pos)]
       IN IF kind # "Item"
          THEN /\ enc_fwd' = [moved EXCEPT !.pc = "stuck",
                                           !.lagged = @ \/ kind = "Lagged"]
               /\ UNCHANGED enc_queue
          ELSE LET frame == BcItem(enc_up.ch, enc_fwd.pos)
                   sent == IF IsData(frame)
                           THEN DataTrySend([moved EXCEPT !.received = @ + 1,
                                                          !.seen = Append(@, frame[1])],
                                            enc_queue, frame)
                           ELSE EofSend(moved, enc_queue)
               IN /\ enc_fwd' = sent[1]
                  /\ enc_queue' = sent[2]
    /\ UNCHANGED <<enc_up, enc_loop, enc_cancel, enc_out, encOthers>>

\* The blocked tx.send returns: the queue has room again, or its receiver is gone.
EncForwarderSendReturns ==
    /\ enc_fwd.pc = "send"
    /\ ~EncRxAlive \/ Len(enc_queue) < FRAME_QUEUE_BOUND
    /\ IF ~EncRxAlive
       THEN /\ enc_fwd' = [enc_fwd EXCEPT !.pc = "join"]
            /\ UNCHANGED enc_queue
       ELSE /\ enc_fwd' = [enc_fwd EXCEPT !.pc = "recv"]
            /\ enc_queue' = Append(enc_queue, enc_fwd.item)
    /\ UNCHANGED <<enc_up, enc_loop, enc_cancel, enc_out, encOthers>>

\* The select! branch cancel_clone.cancelled(): break.
EncForwarderCancelled ==
    /\ enc_fwd.pc \in {"recv", "stuck"}
    /\ enc_cancel
    /\ enc_fwd' = [enc_fwd EXCEPT !.pc = "join"]
    /\ UNCHANGED <<enc_up, enc_queue, enc_loop, enc_cancel, enc_out, encOthers>>

\* let _ = handle.await: the forwarder task ends once the encode loop has.
EncForwarderJoin ==
    /\ enc_fwd.pc = "join"
    /\ enc_loop.pc = "exited"
    /\ enc_fwd' = [enc_fwd EXCEPT !.pc = "done"]
    /\ UNCHANGED <<enc_up, enc_queue, enc_loop, enc_cancel, enc_out, encOthers>>

\* out.send of the n oldest packets the encoder holds, then of EOF if eof: what
\* the loop has published so far.
EncPublish(l, n, eof) ==
    [l EXCEPT !.pending = SubSeq(@, n + 1, Len(@)),
              !.out_data = @ + n,
              !.data_after_eof = @ \/ (n > 0 /\ l.out_eof > 0),
              !.out_eof = IF eof THEN @ + 1 ELSE @,
              !.pc = IF eof THEN "exited" ELSE @]

\* The same sends as they reach the encoder's output channel.
EncOutSend(ch, l, n, eof) ==
    BcSendAll(ch, IF eof THEN Append(DataOf(l.pending, n), EOF) ELSE DataOf(l.pending, n),
              EncOutCap)

\* A worker's output channel has two senders, the one in the task the BusState
\* holds and the clone its blocking loop owns: the channel is closed once the
\* loop has returned and the BusState was dropped.
WorkerChanClosed(ch, loop_exited, state_dropped) ==
    [ch EXCEPT !.closed = @ \/ (loop_exited /\ state_dropped)]

\* EncoderType::send_frame: if frame.pts().is_none() { set_pts(Some(frame_index)) }
PtsGiven(pts, frame_index) == IF pts = None THEN Some(frame_index) ELSE pts

\* An Encoder::send_frame that never advances frame_index.
FrameIndexKept(frame_index, ok) == frame_index

\* Encoder::send_frame: self.frame_index += 1 after the inner send succeeded; an
\* error leaves through `?` before it.
FrameIndexAfter(frame_index, ok) == IF ok THEN frame_index + 1 ELSE frame_index

\* The greater of two optional timestamps.
MaxOpt(a, b) ==
    IF a = None THEN b ELSE IF b = None THEN a
    ELSE IF Unwrap(a) >= Unwrap(b) THEN a ELSE b

\* Encoder::send_frame of a frame whose PTS is pts (None: it has none), by an
\* encoder l; ok: the inner encoder accepted it.
EncoderSendFrame(l, pts, ok) ==
    [l EXCEPT !.frame_index = FrameIndexAfter(@, ok),
              !.synth = IF pts # None THEN @
                        ELSE [pts |-> PtsGiven(pts, l.frame_index),
                              before |-> @.accepted,
                              accepted |-> IF ok
                                           THEN MaxOpt(@.accepted,
                                                       PtsGiven(pts, l.frame_index))
                                           ELSE @.accepted]]

\* One iteration of encoder_loop that dequeues a command. send_ok: send_frame
\* succeeded; packets: how many packets the drain loop received before Ok(None) or
\* an error ended it. The frame dequeued carries a PTS or none. recv_err: the
\* drain of this iteration was ended by Err from encoder_receive_packet.
EncoderLoopStep(send_ok, packets) ==
    /\ enc_loop.pc = "run"
    /\ enc_queue # <<>>
    /\ LET cmd == Head(enc_queue)
       IN /\ enc_queue' = Tail(enc_queue)
          /\ IF IsData(cmd)
             THEN \E pts \in FramePts :
                  LET submitted == EncoderSendFrame(enc_loop, pts, send_ok)
                  IN IF ~send_ok
                     THEN \* send error: continue, the drain is skipped
                          /\ packets = 0
                          /\ enc_loop' = [submitted EXCEPT !.dequeued = @ + 1,
                                                          !.recv_err = FALSE]
                          /\ UNCHANGED enc_out
                     ELSE \E recv_err \in RecvErrs(enc_loop) :
                          LET sent == [submitted EXCEPT !.dequeued = @ + 1,
                                                       !.pending = Append(@, cmd[1]),
                                                       !.recv_err = recv_err]
                          IN /\ packets <= Len(sent.pending)
                             /\ enc_loop' = EncPublish(sent, packets, FALSE)
                             /\ enc_out' = EncOutSend(enc_out, sent, packets, FALSE)
             ELSE \* EOF: send_eof, drain, then leave the loop and publish EOF
                  /\ send_ok
                  /\ packets <= Len(enc_loop.pending)
                  /\ \E recv_err \in RecvErrs(enc_loop) :
                         enc_loop' = [EncPublish(enc_loop, packets, TRUE)
                                         EXCEPT !.recv_err = recv_err]
                  /\ enc_out' = WorkerChanClosed(EncOutSend(enc_out, enc_loop, packets, TRUE),
                                                 TRUE, handler.pc = "stopped")
    /\ UNCHANGED <<enc_up, enc_fwd, enc_cancel, encOthers>>

\* encoder_loop sees the cancellation at the top of an iteration: break, then
\* out.send(EOF).
EncoderLoopCancelled ==
    /\ enc_loop.pc = "run"
    /\ enc_cancel
    /\ enc_loop' = EncPublish(enc_loop, 0, TRUE)
    /\ enc_out' = WorkerChanClosed(EncOutSend(enc_out, enc_loop, 0, TRUE),
                                   TRUE, handler.pc = "stopped")
    /\ UNCHANGED <<enc_up, enc_fwd, enc_queue, enc_cancel, encOthers>>

\* EncoderTask::stop
EncoderTaskStop ==
    /\ ~enc_cancel
    /\ enc_cancel' = TRUE
    /\ UNCHANGED <<enc_up, enc_fwd, enc_queue, enc_loop, enc_out, encOthers>>

EncNextNoStop ==
    \/ EncUpstreamPublish
    \/ EncUpstreamEof
    \/ EncUpstreamClose
    \/ EncForwarderRecv
    \/ EncForwarderSendReturns
    \/ \E send_ok \in BOOLEAN, packets \in 0..MaxFrames : EncoderLoopStep(send_ok, packets)

EncNext ==
    \/ EncNextNoStop
    \/ EncForwarderCancelled
    \/ EncForwarderJoin
    \/ EncoderLoopCancelled
    \/ EncoderTaskStop

(***************************************************************************)
(* The pipeline of one output: reader, fan-out channels, workers, stream   *)
(* (input.rs, decoder.rs, encoder.rs, bus.rs builders)                     *)
(***************************************************************************)

\* Bounds of the pipeline model. The input channel holds 1024 items in the
\* source and the mux message channel 256 (MUX_OUTPUT_CHAN_CAP); both are scaled
\* down.
MaxPackets == 3
InChanCap == 2
MuxOutCap == 2

\* Stream indexes of the input; the output's target stream is TargetStream.
PipeStreams == {0, 1}
TargetStream == 0

\* The subgraph AddOutput builds, by destination and input codec class:
\*   File            create_mux_to_file / create_mux_to_net: input -> AvOutput
\*   Mux             create_mux_output_stream: input -> writer -> message stream
\*   Raw             decoder -> stream of frames
\*   Encoded         decoder -> encoder -> stream of packets
\*   RawVideoEncoded raw-video adapter -> encoder -> stream of packets
PipeKinds == {"File", "Mux", "Raw", "Encoded", "RawVideoEncoded"}

HasMuxTask(k) == k \in {"File", "Mux"}
HasDecoder(k) == k \in {"Raw", "Encoded"}
HasAdapter(k) == k = "RawVideoEncoded"
HasEncoder(k) == k \in {"Encoded", "RawVideoEncoded"}
HasWriter(k) == k = "Mux"

\* A packet of the input: its stream index and its place in the reader's output.
Pkt(stream, seq) == [stream |-> stream, seq |-> seq]

\* AvInputTask after prepare_input_task and begin_input_reading: the read loop
\* runs, BusState.input_task holds the channel's sender. log: the packets it has
\* published, in order.
ReaderNew == [pc |-> "run", count |-> 0, eof |-> FALSE, cancel |-> FALSE,
              task_held |-> TRUE, log |-> <<>>]

\* A subscriber of the input channel: pc "none" when the subgraph has none.
\* seen: the data items it received, of every stream; lagged: it was handed
\* RecvError::Lagged.
SubNew(present) ==
    [pc |-> IF present THEN "recv" ELSE "none", pos |-> 0, seen |-> <<>>,
     lagged |-> FALSE]

\* The mux task also logs its write_packet calls.
MuxTaskNew(present) ==
    [pc |-> IF present THEN "recv" ELSE "none", pos |-> 0, seen |-> <<>>,
     lagged |-> FALSE, written |-> <<>>]

\* decoder_loop: the packets the decoder holds, whether it has published EOF.
DecLoopNew(present) ==
    [pc |-> IF present THEN "run" ELSE "none", pending |-> <<>>, out_eof |-> 0,
     recv_err |-> FALSE, faults |-> FALSE, cancel |-> FALSE, data_after_eof |-> FALSE]

\* The stream AddOutput returned and its consumer. msgs: the writer's message
\* channel (mpsc); nones: how many None items the stream yielded for EOF,
\* lag_nones: for a lag; ended: the stream returned Poll::Ready(None).
ConsumerNew ==
    [pos |-> 0, seen |-> <<>>, msgs |-> <<>>, msgs_closed |-> FALSE,
     dropped_msgs |-> 0, nones |-> 0, lag_nones |-> 0, ended |-> FALSE,
     lagged |-> FALSE]

\* Every sender of the input channel is gone: the reader dropped its clone and
\* BusState.input_task was taken and dropped.
InputClosed(r) == r.pc = "done" /\ ~r.task_held

\* what the reader's and the consumer's actions leave alone
readerOthers == <<pipe_kind, mux_task, dec_fwd, dec_queue, dec_loop, adapter, consumer,
                  encVars, muxVars, busVars, bridge, mixer, shared, api, inputs, sink>>
consumerOthers == <<pipe_kind, reader, in_ch, mux_task, dec_fwd, dec_queue, dec_loop,
                    adapter, encVars, muxVars, busVars, bridge, mixer, shared, api, inputs, sink>>

\* The blocking read loop passes its cancellation check and calls read_packet.
ReaderBeginRead ==
    /\ reader.pc = "run"
    /\ ~reader.cancel
    /\ reader' = [reader EXCEPT !.pc = "reading"]
    /\ UNCHANGED <<in_ch, readerOthers>>

\* The loop finds the token cancelled: break without publishing, drop the sender.
ReaderCancelled ==
    /\ reader.pc = "run"
    /\ reader.cancel
    /\ reader' = [reader EXCEPT !.pc = "done"]
    /\ in_ch' = [in_ch EXCEPT !.closed = InputClosed(reader')]
    /\ UNCHANGED readerOthers

\* read_packet returns Some(packet) of some stream: publish Data(packet).
ReaderPublish(stream) ==
    /\ reader.pc = "reading"
    /\ reader.count < MaxPackets
    /\ reader' = [reader EXCEPT !.pc = "run", !.count = @ + 1,
                                !.log = Append(@, Pkt(stream, reader.count + 1))]
    /\ in_ch' = BcSend(in_ch, Data(Pkt(stream, reader.count + 1)), InChanCap)
    /\ UNCHANGED readerOthers

\* read_packet returns None (end of stream or read error): publish EOF, break,
\* drop the sender.
ReaderEof ==
    /\ reader.pc = "reading"
    /\ reader' = [reader EXCEPT !.pc = "done", !.eof = TRUE]
    /\ in_ch' = [BcSend(in_ch, EOF, InChanCap) EXCEPT !.closed = InputClosed(reader')]
    /\ UNCHANGED readerOthers

\* BusCommand::RemoveInput: input_task.take(), stop(), drop.
PipeRemoveInput ==
    /\ handler.pc = "idle"
    /\ reader.task_held
    /\ reader' = [reader EXCEPT !.cancel = TRUE, !.task_held = FALSE]
    /\ in_ch' = [in_ch EXCEPT !.closed = InputClosed(reader')]
    /\ UNCHANGED readerOthers

\* Bus::stop or the drop of the Bus: the loop's token is cancelled, inner_loop
\* breaks between two commands and drops its BusState with the AvInputTask in
\* it. Nothing calls AvInputTask::stop and the task has no Drop: its token is not
\* cancelled, only its sender of the input channel goes away. The DecoderTask and
\* EncoderTask are dropped with it, and with them their senders.
PipeBusStop ==
    /\ handler.pc = "idle"
    /\ handler' = [handler EXCEPT !.pc = "stopped"]
    /\ reader' = [reader EXCEPT !.task_held = FALSE]
    /\ in_ch' = [in_ch EXCEPT !.closed = InputClosed(reader')]
    /\ enc_up' = [enc_up EXCEPT
           !.ch = WorkerChanClosed(@, HasDecoder(pipe_kind) /\ dec_loop.pc = "exited", TRUE)]
    /\ enc_out' = WorkerChanClosed(enc_out, enc_loop.pc = "exited", TRUE)
    /\ UNCHANGED <<pipe_kind, mux_task, dec_fwd, dec_queue, dec_loop, adapter, consumer,
                   enc_fwd, enc_queue, enc_loop, enc_cancel, muxVars, bus_state, bus_log,
                   bridge, mixer, shared, api, inputs, sink>>

\* Err(RecvError::Lagged(n)) => continue: the receiver resumes at the oldest
\* retained item.
SubAfterLag(sub, ch) == [sub EXCEPT !.pos = BcNextPos(ch, sub.pos), !.lagged = TRUE]

\* The callback of the writer's custom IO: try_send of one message, dropped with
\* a warning when the channel is full.
MsgTrySend(c, m) ==
    IF Len(c.msgs) < MuxOutCap
    THEN [c EXCEPT !.msgs = Append(@, m)]
    ELSE [c EXCEPT !.dropped_msgs = @ + 1]

\* A mux task that writes the packets of every stream.
MuxTaskWritesAny(p) == TRUE

\* packet.index() == target_stream_index
MuxTaskWrites(p) == p.stream = TargetStream

\* The mux task of create_mux_to_file, create_mux_to_net and
\* create_mux_output_stream: one pass of its receive loop.
MuxTaskRecv ==
    /\ mux_task.pc = "recv"
    /\ BcRecvKind(in_ch, mux_task.pos) # "Empty"
    /\ LET kind == BcRecvKind(in_ch, mux_task.pos)
           cmd == BcItem(in_ch, mux_task.pos)
           moved == [mux_task EXCEPT !.pos = BcNextPos(in_ch, mux_task.pos)]
       IN CASE kind = "Lagged" ->
                 /\ mux_task' = SubAfterLag(mux_task, in_ch)
                 /\ UNCHANGED consumer
            [] kind = "Closed" \/ (kind = "Item" /\ cmd = EOF) ->
                 \* break; finish(); the task ends and drops its output
                 /\ mux_task' = [moved EXCEPT !.pc = "done"]
                 /\ consumer' = [consumer EXCEPT !.msgs_closed = TRUE]
            [] OTHER ->
                 IF MuxTaskWrites(cmd[1])
                 THEN /\ mux_task' = [moved EXCEPT !.seen = Append(@, cmd[1]),
                                                  !.written = Append(@, cmd[1])]
                      /\ consumer' = IF HasWriter(pipe_kind)
                                     THEN MsgTrySend(consumer, cmd[1])
                                     ELSE consumer
                 ELSE /\ mux_task' = [moved EXCEPT !.seen = Append(@, cmd[1])]
                      /\ UNCHANGED consumer
    /\ UNCHANGED <<pipe_kind, reader, in_ch, dec_fwd, dec_queue, dec_loop, adapter,
                 encVars, muxVars, busVars, bridge, mixer, shared, api, inputs, sink>>

\* The builder of an AddOutput handled while the input task exists
\* (create_mux_output_stream, create_mux_to_file, create_mux_to_net): subscribe()
\* on the task's sender, then spawn the mux task. A broadcast receiver starts
\* behind the last item sent before it was created.
MuxTaskSubscribe ==
    /\ HasMuxTask(pipe_kind)
    /\ mux_task.pc = "none"
    /\ reader.task_held
    /\ mux_task' = [MuxTaskNew(TRUE) EXCEPT !.pos = BcEnd(in_ch)]
    /\ UNCHANGED <<pipe_kind, reader, in_ch, dec_fwd, dec_queue, dec_loop, adapter,
                   consumer, encVars, muxVars, busVars, bridge, mixer, shared, api, inputs, sink>>

\* The consumer polls the message stream of a Mux output (AvOutputStreamReader):
\* the next message, or the end once the writer is gone and nothing is queued.
ConsumerNextMsg ==
    /\ HasWriter(pipe_kind)
    /\ ~consumer.ended
    /\ consumer.msgs # <<>> \/ consumer.msgs_closed
    /\ consumer' = IF consumer.msgs # <<>>
                   THEN [consumer EXCEPT !.seen = Append(@, Head(consumer.msgs)),
                                         !.msgs = Tail(@)]
                   ELSE [consumer EXCEPT !.ended = TRUE]
    /\ UNCHANGED consumerOthers

\* The consumer polls the stream of a File / Net output: stream::empty().
ConsumerEmptyStream ==
    /\ pipe_kind = "File"
    /\ ~consumer.ended
    /\ consumer' = [consumer EXCEPT !.ended = TRUE]
    /\ UNCHANGED consumerOthers

\* One pass of the decoder forwarder's select! loop on the branch
\* Ok(packet) = decoder_receiver.recv(); a recv that yields Err (Lagged or Closed)
\* disables the branch and leaves the select! waiting for cancellation alone.
\* Packets of other streams are skipped; EOF is forwarded and ends the loop.
DecForwarderRecv ==
    /\ dec_fwd.pc = "recv"
    /\ BcRecvKind(in_ch, dec_fwd.pos) # "Empty"
    /\ LET kind == BcRecvKind(in_ch, dec_fwd.pos)
           cmd == BcItem(in_ch, dec_fwd.pos)
           moved == [dec_fwd EXCEPT !.pos = BcNextPos(in_ch, dec_fwd.pos)]
       IN CASE kind # "Item" ->
                 /\ dec_fwd' = [moved EXCEPT !.pc = "stuck",
                                            !.lagged = @ \/ kind = "Lagged"]
                 /\ UNCHANGED dec_queue
            [] kind = "Item" /\ cmd = EOF ->
                 /\ dec_fwd' = [moved EXCEPT !.pc = "join"]
                 /\ dec_queue' = Append(dec_queue, EOF)
            [] OTHER ->
                 /\ dec_fwd' = [moved EXCEPT !.seen = Append(@, cmd[1])]
                 /\ dec_queue' = IF cmd[1].stream = TargetStream
                                 THEN Append(dec_queue, cmd)
                                 ELSE dec_queue
    /\ UNCHANGED <<pipe_kind, reader, in_ch, mux_task, dec_loop, adapter, consumer,
                   encVars, muxVars, busVars, bridge, mixer, shared, api, inputs, sink>>

\* let _ = handle.await: the forwarder task ends once the decode loop has.
DecForwarderJoin ==
    /\ dec_fwd.pc = "join"
    /\ dec_loop.pc = "exited"
    /\ dec_fwd' = [dec_fwd EXCEPT !.pc = "done"]
    /\ UNCHANGED <<pipe_kind, reader, in_ch, mux_task, dec_queue, dec_loop, adapter,
                   consumer, encVars, muxVars, busVars, bridge, mixer, shared, api, inputs, sink>>

\* One iteration of decoder_loop that dequeues a command. send_ok: send_packet
\* succeeded; frames: how many frames the drain loop received before Ok(None) or an
\* error ended it. After EOF the loop leaves and publishes EOF.
DecoderLoopStep(send_ok, frames) ==
    /\ dec_loop.pc = "run"
    /\ dec_queue # <<>>
    /\ LET cmd == Head(dec_queue)
           held == IF IsData(cmd) /\ send_ok
                   THEN Append(dec_loop.pending, cmd[1])
                   ELSE dec_loop.pending
           eof == cmd = EOF
           n == IF IsData(cmd) /\ ~send_ok THEN 0 ELSE frames
       IN /\ frames <= Len(held)
          /\ IsData(cmd) /\ ~send_ok => frames = 0
          /\ eof => send_ok
          /\ dec_queue' = Tail(dec_queue)
          /\ \E recv_err \in RecvErrs(dec_loop) :
                 /\ IsData(cmd) /\ ~send_ok => ~recv_err
                 /\ dec_loop' = [dec_loop EXCEPT
                        !.pending = SubSeq(held, n + 1, Len(held)),
                        !.out_eof = IF eof THEN @ + 1 ELSE @,
                        !.pc = IF eof THEN "exited" ELSE @,
                        !.recv_err = recv_err,
                        !.data_after_eof = @ \/ (dec_loop.out_eof > 0 /\ n > 0)]
          /\ enc_up' = [enc_up EXCEPT
                 !.ch = WorkerChanClosed(
                            BcSendAll(@, IF eof THEN Append(DataOf(held, n), EOF)
                                         ELSE DataOf(held, n), EncUpCap),
                            eof, handler.pc = "stopped"),
                 !.produced = @ + n,
                 !.eof_sent = eof]
    /\ UNCHANGED <<pipe_kind, reader, in_ch, mux_task, dec_fwd, adapter, consumer,
                   enc_fwd, enc_queue, enc_loop, enc_cancel, enc_out, muxVars,
                   busVars, bridge, mixer, shared, api, inputs, sink>>

decOthers == <<pipe_kind, reader, in_ch, mux_task, adapter, consumer, enc_fwd,
               enc_queue, enc_loop, enc_cancel, enc_out, muxVars, busVars, bridge,
               mixer, shared, api, inputs, sink>>

\* DecoderTask::stop: self.cancel.cancel()
DecoderTaskStop ==
    /\ dec_loop.pc # "none"
    /\ ~dec_loop.cancel
    /\ dec_loop' = [dec_loop EXCEPT !.cancel = TRUE]
    /\ UNCHANGED <<dec_fwd, dec_queue, enc_up, decOthers>>

\* A decode loop that returns at the cancellation instead of falling through to
\* out_sender.send(EOF).
DecoderLoopCancelledSilent ==
    /\ dec_loop.pc = "run"
    /\ dec_loop.cancel
    /\ dec_loop' = [dec_loop EXCEPT !.pc = "exited"]
    /\ UNCHANGED <<enc_up, dec_fwd, dec_queue, decOthers>>

\* decoder_loop sees the cancellation at the top of an iteration: break, then
\* out_sender.send(EOF).
DecoderLoopCancelled ==
    /\ dec_loop.pc = "run"
    /\ dec_loop.cancel
    /\ dec_loop' = [dec_loop EXCEPT !.pc = "exited", !.out_eof = @ + 1]
    /\ enc_up' = [enc_up EXCEPT
           !.ch = WorkerChanClosed(BcSend(@, EOF, EncUpCap), TRUE, handler.pc = "stopped"),
           !.eof_sent = TRUE]
    /\ UNCHANGED <<dec_fwd, dec_queue, decOthers>>

\* The forwarder's select! branch cancel_clone.cancelled(): break.
DecForwarderCancelled ==
    /\ dec_fwd.pc \in {"recv", "stuck"}
    /\ dec_loop.cancel
    /\ dec_fwd' = [dec_fwd EXCEPT !.pc = "join"]
    /\ UNCHANGED <<dec_queue, dec_loop, enc_up, decOthers>>

\* One pass of the raw-video adapter's loop: Data is converted to a frame and, if
\* the conversion succeeded, published; EOF is published and ends the task, which
\* drops the frame channel's sender; Err(_) => continue, after Lagged at the
\* oldest retained item, after Closed at the same recv again.
AdapterRecv(conv_ok) ==
    /\ adapter.pc = "recv"
    /\ BcRecvKind(in_ch, adapter.pos) # "Empty"
    /\ LET kind == BcRecvKind(in_ch, adapter.pos)
           cmd == BcItem(in_ch, adapter.pos)
           moved == [adapter EXCEPT !.pos = BcNextPos(in_ch, adapter.pos)]
       IN CASE kind = "Lagged" ->
                 /\ conv_ok
                 /\ adapter' = SubAfterLag(adapter, in_ch)
                 /\ UNCHANGED enc_up
            [] kind = "Closed" ->
                 /\ conv_ok
                 /\ adapter' = [adapter EXCEPT !.pc = "spin"]
                 /\ UNCHANGED enc_up
            [] kind = "Item" /\ cmd = EOF ->
                 /\ conv_ok
                 /\ adapter' = [moved EXCEPT !.pc = "done"]
                 /\ enc_up' = [enc_up EXCEPT
                        !.ch = [BcSend(@, EOF, EncUpCap) EXCEPT !.closed = TRUE],
                        !.eof_sent = TRUE]
            [] OTHER ->
                 /\ adapter' = [moved EXCEPT !.seen = Append(@, cmd[1])]
                 /\ enc_up' = IF conv_ok
                              THEN [enc_up EXCEPT !.ch = BcSend(@, cmd, EncUpCap),
                                                  !.produced = @ + 1]
                              ELSE enc_up
    /\ UNCHANGED <<pipe_kind, reader, in_ch, mux_task, dec_fwd, dec_queue, dec_loop,
                   consumer, enc_fwd, enc_queue, enc_loop, enc_cancel, enc_out, muxVars,
                   busVars, bridge, mixer, shared, api, inputs, sink>>

\* The channel the returned stream is subscribed to: the decoder's output for a
\* Raw output, the encoder's for an Encoded one.
ConsumerChan == IF pipe_kind = "Raw" THEN enc_up.ch ELSE enc_out

\* The consumer polls the stream of a Raw output (create_decoder_raw_output_stream:
\* Data -> Some(frame), EOF -> None, a lag error -> None) or of an Encoded output
\* (create_encoded_output_stream: Data -> Some(frame), EOF -> None, a lag error is
\* skipped). The stream ends when the channel is closed.
ConsumerNextItem ==
    /\ pipe_kind \in {"Raw", "Encoded", "RawVideoEncoded"}
    /\ ~consumer.ended
    /\ BcRecvKind(ConsumerChan, consumer.pos) # "Empty"
    /\ LET kind == BcRecvKind(ConsumerChan, consumer.pos)
           cmd == BcItem(ConsumerChan, consumer.pos)
           moved == [consumer EXCEPT !.pos = BcNextPos(ConsumerChan, consumer.pos)]
       IN consumer' =
            CASE kind = "Lagged" ->
                   [moved EXCEPT !.lagged = TRUE,
                                 !.lag_nones = IF pipe_kind = "Raw" THEN @ + 1 ELSE @]
              [] kind = "Closed" -> [consumer EXCEPT !.ended = TRUE]
              [] kind = "Item" /\ cmd = EOF -> [moved EXCEPT !.nones = @ + 1]
              [] OTHER -> [moved EXCEPT !.seen = Append(@, cmd[1])]
    /\ UNCHANGED consumerOthers

\* Reader, workers and consumer of one output, the input never removed.
PipeNextNoRemove ==
    \/ ReaderBeginRead
    \/ \E stream \in PipeStreams : ReaderPublish(stream)
    \/ ReaderEof
    \/ MuxTaskRecv
    \/ DecForwarderRecv
    \/ DecForwarderJoin
    \/ \E send_ok \in BOOLEAN, frames \in 0..MaxPackets : DecoderLoopStep(send_ok, frames)
    \/ \E conv_ok \in BOOLEAN : AdapterRecv(conv_ok)
    \/ EncForwarderRecv
    \/ EncForwarderSendReturns
    \/ \E send_ok \in BOOLEAN, packets \in 0..MaxPackets : EncoderLoopStep(send_ok, packets)
    \/ ConsumerNextMsg
    \/ ConsumerEmptyStream
    \/ ConsumerNextItem

PipeNext ==
    \/ PipeNextNoRemove
    \/ PipeRemoveInput
    \/ PipeBusStop
    \/ ReaderCancelled

\* An input task that reads on while outputs fed by a mux task come late.
LateNext ==
    \/ ReaderBeginRead
    \/ \E stream \in PipeStreams : ReaderPublish(stream)
    \/ ReaderEof
    \/ ReaderCancelled
    \/ PipeRemoveInput
    \/ MuxTaskSubscribe
    \/ MuxTaskRecv
    \/ ConsumerNextMsg
    \/ ConsumerEmptyStream

\* The outputs that run a decoder or an encoder worker.
WorkerKinds == {k \in PipeKinds : HasDecoder(k) \/ HasEncoder(k)}

\* Reader and workers of one output whose DecoderTask and EncoderTask may be
\* stopped at any time; the input has the one stream the output is built for.
WorkersNext ==
    \/ ReaderBeginRead
    \/ ReaderPublish(TargetStream)
    \/ ReaderEof
    \/ DecForwarderRecv
    \/ DecForwarderCancelled
    \/ DecForwarderJoin
    \/ \E send_ok \in BOOLEAN, frames \in 0..MaxPackets : DecoderLoopStep(send_ok, frames)
    \/ DecoderLoopCancelled
    \/ DecoderTaskStop
    \/ \E conv_ok \in BOOLEAN : AdapterRecv(conv_ok)
    \/ EncForwarderRecv
    \/ EncForwarderSendReturns
    \/ EncForwarderCancelled
    \/ EncForwarderJoin
    \/ \E send_ok \in BOOLEAN, packets \in 0..MaxPackets : EncoderLoopStep(send_ok, packets)
    \/ EncoderLoopCancelled
    \/ HasEncoder(pipe_kind) /\ EncoderTaskStop

(***************************************************************************)
(* The Bus command loop: inner_command_handler over BusState (bus.rs)      *)
(***************************************************************************)

\* Bounds of the command-loop model: commands taken from the channel, packets a
\* reader publishes.
MaxCommands == 5
MaxBusPackets == 1

OutputIds == {"out_0", "out_1"}

\* OutputDest; Mux is split by whether its format names a codec ("h264") or a
\* container.
Dests == {"Raw", "File", "Net", "MuxH264", "MuxOther", "Encoded"}

\* OutputAvType. The inputs of the model carry one video stream of index 0 and no
\* audio stream.
AvTypes == {"Video", "Audio"}

\* The codec id of the input's video stream.
Codecs == {"H264", "RAWVIDEO", "WRAPPED_AVFRAME"}

\* BusState::new(). input_task: Some of the task's generation (which input
\* channel it owns), whether its read loop was started, how many packets it
\* published. input_streams: one descriptor per push. decoder_tasks /
\* encoder_tasks: the entry of stream index 0, Some of the generation of the input
\* channel the worker is fed from.
BusStateNew ==
    [input_config |-> None, input_task |-> None, input_streams |-> <<>>,
     output_config |-> {}, decoder_tasks |-> None, encoder_tasks |-> None]

\* The handler between commands.
HandlerIdle ==
    [pc |-> "idle", kind |-> "None", id |-> "out_0", dest |-> "Raw", encode |-> FALSE,
     av_type |-> "Video", deferred |-> FALSE, stream_result |-> "none", attached |-> 0,
     source |-> "none", replies |-> 0, before |-> BusStateNew,
     need_decoder |-> FALSE, need_encoder |-> FALSE]

\* What has been observed of the loop: commands taken, input tasks created, the
\* last command handled with the replies sent on its one-shot channel and the
\* path it took, and per output id the last AddOutput that built it: whether it
\* ran the two-phase start and for which input task, which input channel feeds
\* its subgraph, whether it was registered, and whether the first packet of that
\* input task was published while the subgraph was not fed by its channel.
OutputLogNew == [two_phase_gen |-> 0, attached |-> 0, registered |-> FALSE,
                 missed_first |-> FALSE]

\* What is logged of one handled command: the replies sent and the path taken.
LastNone == [kind |-> "None", replies |-> 0, path |-> "none"]

\* prev: the command handled before the last one. stopped: the input task whose
\* stop() was called last. enc_encode: Some of whether the AddOutput that built
\* the running encoder carried an encode config (encoder_options_from_config),
\* recorded when track_encode is set.
BusLogNew ==
    [commands |-> 0, gens |-> 0, stopped |-> 0,
     prev |-> [kind |-> "None", path |-> "none"],
     last |-> LastNone,
     outs |-> [o \in OutputIds |-> OutputLogNew],
     track_encode |-> FALSE, enc_encode |-> None]

\* A try_encoder without its last test, output.encode.is_some().
TryEncoderNoConfig(codec, dest, encode) ==
    IF dest = "Raw" THEN FALSE
    ELSE IF codec \in {"RAWVIDEO", "WRAPPED_AVFRAME"} THEN TRUE
    ELSE IF dest = "Encoded" THEN TRUE
    ELSE IF dest = "MuxH264" /\ codec # "H264" THEN TRUE
    ELSE FALSE

\* try_encoder
TryEncoder(codec, dest, encode) ==
    IF dest = "Raw" THEN FALSE
    ELSE IF codec \in {"RAWVIDEO", "WRAPPED_AVFRAME"} THEN TRUE
    ELSE IF dest = "Encoded" THEN TRUE
    ELSE IF dest = "MuxH264" /\ codec # "H264" THEN TRUE
    ELSE encode

\* try_decoder
TryDecoder(codec, dest, encode) ==
    IF codec = "RAWVIDEO" THEN FALSE
    ELSE CASE dest = "Raw" -> TRUE
           [] dest = "File" -> FALSE
           [] dest \in {"MuxH264", "MuxOther"} ->
                  codec = "WRAPPED_AVFRAME" \/ TryEncoder(codec, dest, encode)
           [] dest = "Net" -> TRUE
           [] dest = "Encoded" -> TRUE

\* prepare_input_task after a successful open: push the input's streams, create
\* the AvInputTask; its read loop is not started.
PrepareInputTask(st, log) ==
    [st EXCEPT !.input_streams = Append(@, [gen |-> log.gens + 1,
                                            codec |-> Unwrap(st.input_config)]),
               !.input_task = Some([gen |-> log.gens + 1, started |-> FALSE,
                                    count |-> 0])]

\* begin_input_reading: task.start(input) if a task is present.
BeginInputReading(st) ==
    IF IsSome(st.input_task)
    THEN [st EXCEPT !.input_task = Some([Unwrap(@) EXCEPT !.started = TRUE])]
    ELSE st

\* The paths on which the handler replies Ok.
OkPaths == {"configured", "started", "removed", "added"}

\* The generation of an input task, 0 for none.
TaskGen(t) == IF t = None THEN 0 ELSE Unwrap(t).gen

\* The handler is done with its command: the log takes the replies and the path
\* and moves the command before it to prev.
Handled(log, kind, replies, path) ==
    [log EXCEPT !.prev = [kind |-> log.last.kind, path |-> log.last.path],
                !.last = [kind |-> kind, replies |-> replies, path |-> path]]

\* start_decoder_task for stream index 0: Ok with the new BusState, or Err.
StartDecoderTask(st, codec, dec_ok) ==
    IF IsSome(st.decoder_tasks) THEN [ok |-> TRUE, st |-> st]
    ELSE IF codec = "RAWVIDEO" THEN [ok |-> TRUE, st |-> st]
    ELSE IF st.input_task = None THEN [ok |-> FALSE, st |-> st]
    ELSE IF ~dec_ok THEN [ok |-> FALSE, st |-> st]
    ELSE [ok |-> TRUE,
          st |-> [st EXCEPT !.decoder_tasks = Some(Unwrap(st.input_task).gen)]]

\* start_encoder_task for stream index 0: a raw-video input is fed straight from
\* the input channel through the adapter, any other from the decoder's channel.
StartEncoderTask(st, codec, enc_ok) ==
    IF IsSome(st.encoder_tasks) THEN [ok |-> TRUE, st |-> st]
    ELSE IF codec = "RAWVIDEO"
    THEN IF st.input_task = None \/ ~enc_ok THEN [ok |-> FALSE, st |-> st]
         ELSE [ok |-> TRUE,
               st |-> [st EXCEPT !.encoder_tasks = Some(Unwrap(st.input_task).gen)]]
    ELSE IF st.decoder_tasks = None \/ ~enc_ok THEN [ok |-> FALSE, st |-> st]
         ELSE [ok |-> TRUE,
               st |-> [st EXCEPT !.encoder_tasks = Some(Unwrap(st.decoder_tasks))]]

\* The builder of the destination: Err, or Ok with the generation of the input
\* channel its subscription is fed from and the sender it subscribed to (the
\* input task, the decoder worker or the encoder worker).
BuildStream(st, dest, need_encoder, builder_ok) ==
    LET failed == [ok |-> FALSE, attached |-> 0, source |-> "none"]
        from(task, worker) ==
            IF task = None THEN failed
            ELSE [ok |-> TRUE, attached |-> Unwrap(task), source |-> worker]
        direct == IF st.input_task = None \/ ~builder_ok THEN failed
                  ELSE [ok |-> TRUE, attached |-> Unwrap(st.input_task).gen,
                        source |-> "input"]
    IN CASE dest = "Raw" -> from(st.decoder_tasks, "decoder")
         [] dest \in {"File", "Net"} -> direct
         [] dest \in {"MuxH264", "MuxOther"} ->
                IF need_encoder
                THEN IF builder_ok THEN from(st.encoder_tasks, "encoder") ELSE failed
                ELSE direct
         [] dest = "Encoded" -> from(st.encoder_tasks, "encoder")

\* add_input_internal once the input is accepted: store the config, then, with
\* outputs registered and no input task, prepare_input_task and
\* begin_input_reading. open_ok: AvInput::new succeeds if prepare_input_task runs.
AddInputAccepted(st, codec, open_ok, log) ==
    LET configured == [st EXCEPT !.input_config = Some(codec)]
    IN IF configured.output_config # {} /\ configured.input_task = None
       THEN IF open_ok
            THEN [path |-> "started",
                  st |-> BeginInputReading(PrepareInputTask(configured, log))]
            ELSE [path |-> "open_failed", st |-> configured]
       ELSE [path |-> "configured", st |-> configured]

\* An add_input_internal that stores the new config before it rejects the call.
AddInputReplacing(st, codec, open_ok, log) ==
    IF IsSome(st.input_config)
    THEN [path |-> "input_exists", st |-> [st EXCEPT !.input_config = Some(codec)]]
    ELSE AddInputAccepted(st, codec, open_ok, log)

\* add_input_internal: Err("input already exists") with the state untouched when
\* an input is configured.
AddInputInternal(st, codec, open_ok, log) ==
    IF IsSome(st.input_config)
    THEN [path |-> "input_exists", st |-> st]
    ELSE AddInputAccepted(st, codec, open_ok, log)

\* BusCommand::AddInput, the whole handler: add_input_internal, then one reply.
BusAddInput(codec, open_ok) ==
    /\ handler.pc = "idle"
    /\ bus_log.commands < MaxCommands
    /\ LET taken == [bus_log EXCEPT !.commands = @ + 1]
           r == AddInputInternal(bus_state, codec, open_ok, bus_log)
       IN /\ r.path \in {"input_exists", "configured"} => open_ok
          /\ bus_state' = r.st
          /\ bus_log' = Handled([taken EXCEPT !.gens = IF r.path = "started"
                                                       THEN @ + 1 ELSE @],
                                "AddInput", 1, r.path)
    /\ UNCHANGED <<handler, busOthers>>

\* A RemoveInput that drops the input task and keeps the config.
RemoveInputKeepingConfig(st) == [st EXCEPT !.input_task = None]

\* input_task.take(); input_config = None
RemoveInput(st) == [st EXCEPT !.input_task = None, !.input_config = None]

\* BusCommand::RemoveInput, the whole handler: take, stop and drop the input task,
\* clear input_config, reply Ok.
BusRemoveInput ==
    /\ handler.pc = "idle"
    /\ bus_log.commands < MaxCommands
    /\ bus_state' = RemoveInput(bus_state)
    /\ bus_log' = Handled([bus_log EXCEPT !.commands = @ + 1,
                                          !.stopped = IF IsSome(bus_state.input_task)
                                                      THEN TaskGen(bus_state.input_task)
                                                      ELSE @],
                          "RemoveInput", 1, "removed")
    /\ UNCHANGED <<handler, busOthers>>

\* BusCommand::AddOutput up to the end of phase 1: the duplicate check, then
\* prepare_input_task if no input task exists and an input is configured.
BusAddOutputBegin(id, dest, encode, av_type, open_ok) ==
    /\ handler.pc = "idle"
    /\ bus_log.commands < MaxCommands
    /\ LET taken == [bus_log EXCEPT !.commands = @ + 1]
           cmd == [HandlerIdle EXCEPT !.kind = "AddOutput", !.id = id, !.dest = dest,
                                      !.encode = encode, !.av_type = av_type,
                                      !.before = bus_state]
       IN IF id \in bus_state.output_config
          THEN /\ open_ok
               /\ bus_log' = Handled(taken, "AddOutput", 1, "duplicate")
               /\ UNCHANGED <<bus_state, handler>>
          ELSE IF bus_state.input_task = None /\ IsSome(bus_state.input_config)
          THEN IF open_ok
               THEN /\ bus_state' = PrepareInputTask(bus_state, bus_log)
                    /\ bus_log' = [taken EXCEPT !.gens = @ + 1]
                    /\ handler' = [cmd EXCEPT !.pc = "build", !.deferred = TRUE]
               ELSE /\ bus_log' = Handled(taken, "AddOutput", 1, "open_failed")
                    /\ UNCHANGED <<bus_state, handler>>
          ELSE /\ open_ok
               /\ bus_log' = taken
               /\ handler' = [cmd EXCEPT !.pc = "build"]
               /\ UNCHANGED bus_state
    /\ UNCHANGED busOthers

\* AddOutput from the stream lookup to the builder's result. Each `?` leaves the
\* handler at once: the reply sender is dropped unused, begin_input_reading is
\* not reached. dec_ok, enc_ok, builder_ok: Decoder::new, Encoder::new and the
\* muxer's open succeed if they run.
BusAddOutputBuild(dec_ok, enc_ok, builder_ok) ==
    /\ handler.pc = "build"
    /\ LET found == bus_state.input_streams # <<>> /\ handler.av_type = "Video"
           codec == Head(bus_state.input_streams).codec
           need_decoder == TryDecoder(codec, handler.dest, handler.encode)
           need_encoder == TryEncoder(codec, handler.dest, handler.encode)
           dec == IF need_decoder THEN StartDecoderTask(bus_state, codec, dec_ok)
                  ELSE [ok |-> TRUE, st |-> bus_state]
           enc == IF need_encoder THEN StartEncoderTask(dec.st, codec, enc_ok)
                  ELSE [ok |-> TRUE, st |-> dec.st]
           built == BuildStream(enc.st, handler.dest, need_encoder, builder_ok)
       IN IF ~found
          THEN /\ bus_log' = Handled(bus_log, "AddOutput", 0, "no_stream")
               /\ handler' = HandlerIdle
               /\ UNCHANGED bus_state
          ELSE IF ~dec.ok
          THEN /\ bus_log' = Handled(bus_log, "AddOutput", 0, "decoder_failed")
               /\ handler' = HandlerIdle
               /\ UNCHANGED bus_state
          ELSE IF ~enc.ok
          THEN /\ bus_log' = Handled(bus_log, "AddOutput", 0, "encoder_failed")
               /\ handler' = HandlerIdle
               /\ bus_state' = dec.st
          ELSE /\ bus_state' = enc.st
               /\ handler' = [handler EXCEPT
                      !.pc = "finish",
                      !.stream_result = IF built.ok THEN "ok" ELSE "err",
                      !.attached = built.attached,
                      !.source = built.source,
                      !.need_decoder = need_decoder,
                      !.need_encoder = need_encoder]
               /\ bus_log' = IF /\ bus_log.track_encode
                                 /\ dec.st.encoder_tasks = None
                                 /\ IsSome(enc.st.encoder_tasks)
                              THEN [bus_log EXCEPT !.enc_encode = Some(handler.encode)]
                              ELSE bus_log
    /\ UNCHANGED busOthers

\* AddOutput from phase 2 to the reply: begin_input_reading if phase 1 ran, then
\* Ok with the output registered, or the builder's error.
BusAddOutputFinish ==
    /\ handler.pc = "finish"
    /\ LET begun == IF handler.deferred THEN BeginInputReading(bus_state) ELSE bus_state
           ok == handler.stream_result = "ok"
           out == [two_phase_gen |-> IF handler.deferred
                                     THEN Unwrap(bus_state.input_task).gen ELSE 0,
                   attached |-> handler.attached,
                   registered |-> TRUE,
                   missed_first |-> FALSE]
       IN /\ bus_state' = IF ok
                          THEN [begun EXCEPT !.output_config = @ \cup {handler.id}]
                          ELSE begun
          /\ bus_log' = Handled(IF ok THEN [bus_log EXCEPT !.outs[handler.id] = out]
                                ELSE bus_log,
                                "AddOutput", 1,
                                IF ok THEN "added" ELSE "builder_failed")
          /\ handler' = HandlerIdle
    /\ UNCHANGED busOthers

\* The read loop of the started input task publishes a packet. At the first
\* packet of an input task, every registered output whose AddOutput ran the
\* two-phase start for this task either is fed by this task's channel or misses
\* the packet.
BusReaderPublish ==
    /\ IsSome(bus_state.input_task)
    /\ Unwrap(bus_state.input_task).started
    /\ Unwrap(bus_state.input_task).count < MaxBusPackets
    /\ LET task == Unwrap(bus_state.input_task)
       IN /\ bus_state' = [bus_state EXCEPT
                 !.input_task = Some([task EXCEPT !.count = @ + 1])]
          /\ bus_log' = IF task.count > 0 THEN bus_log
                        ELSE [bus_log EXCEPT !.outs = [o \in OutputIds |->
                                 IF @[o].two_phase_gen = task.gen /\ @[o].attached # task.gen
                                 THEN [@[o] EXCEPT !.missed_first = TRUE]
                                 ELSE @[o]]]
    /\ UNCHANGED <<handler, busOthers>>

BusNext ==
    \/ \E codec \in Codecs, open_ok \in BOOLEAN : BusAddInput(codec, open_ok)
    \/ BusRemoveInput
    \/ \E id \in OutputIds, dest \in Dests, encode \in BOOLEAN, av_type \in AvTypes,
          open_ok \in BOOLEAN : BusAddOutputBegin(id, dest, encode, av_type, open_ok)
    \/ \E dec_ok \in BOOLEAN, enc_ok \in BOOLEAN, builder_ok \in BOOLEAN :
          BusAddOutputBuild(dec_ok, enc_ok, builder_ok)
    \/ BusAddOutputFinish
    \/ BusReaderPublish

(***************************************************************************)
(* Bitstream detection (bsf.rs) and the streaming-server bridge (pipe.rs)  *)
(***************************************************************************)

\* Bounds of the bridge model: the longest first frame of a stream, the longest
\* later frame.
MaxBufLen == 6
MaxLaterLen == 4

\* The byte values packets are made of.
ByteValues == {0, 1, 2}
Buffers == UNION {[1..n -> ByteValues] : n \in 0..MaxBufLen}
LaterBuffers == UNION {[1..n -> ByteValues] : n \in 0..MaxLaterLen}

\* is_annexb_packet
IsAnnexbPacket(data) ==
    IF Len(data) < 4 THEN FALSE
    ELSE IF data[1] = 0 /\ data[2] = 0 /\ data[3] = 0 /\ data[4] = 1 THEN TRUE
    ELSE IF data[1] = 0 /\ data[2] = 0 /\ data[3] = 1 THEN TRUE
    ELSE FALSE

\* The 4-byte big-endian length prefix at data[i..i+3].
LengthPrefix(data, i) ==
    data[i] * 16777216 + data[i + 1] * 65536 + data[i + 2] * 256 + data[i + 3]

\* A converter that copies the NAL and forgets the start code.
EmitNalBare(nal) == nal

\* What convert_avcc_to_annexb emits for one NAL: [00 00 00 01 | NAL].
EmitNal(nal) == <<0, 0, 0, 1>> \o nal

\* convert_avcc_to_annexb from byte i on: each [4-byte length | NAL] becomes
\* [00 00 00 01 | NAL]; a length of zero or one that overruns the buffer stops it.
RECURSIVE ConvertFrom(_, _)
ConvertFrom(data, i) ==
    IF i + 3 > Len(data) THEN <<>>
    ELSE LET n == LengthPrefix(data, i)
         IN IF n = 0 \/ i + 3 + n > Len(data) THEN <<>>
            ELSE EmitNal(SubSeq(data, i + 4, i + 3 + n)) \o ConvertFrom(data, i + 4 + n)

ConvertAvccToAnnexb(data) == ConvertFrom(data, 1)

\* The bridge before the first frame of its stream.
BridgeNew ==
    [track_initialized |-> FALSE, conversion_checked |-> FALSE,
     needs_conversion |-> FALSE, first |-> FALSE, data |-> <<>>, sent |-> None]

\* One iteration of the bridge's loop over a frame whose payload is data: on the
\* first frame the track is initialised and the format checked once; then the
\* payload is converted if needs_conversion and given to the media source.
\* first: the frame is the first of the stream.
BridgeFrame(data) ==
    /\ LET check == ~bridge.track_initialized /\ ~bridge.conversion_checked
           needs == IF check THEN ~IsAnnexbPacket(data) ELSE bridge.needs_conversion
       IN bridge' = [track_initialized |-> TRUE,
                     conversion_checked |-> bridge.conversion_checked \/ check,
                     needs_conversion |-> needs,
                     first |-> ~bridge.track_initialized,
                     data |-> data,
                     sent |-> Some(IF needs THEN ConvertAvccToAnnexb(data) ELSE data)]
    /\ UNCHANGED bridgeOthers

\* Bounds of the converter's inputs: the NALs of a packet, the bytes of a NAL.
MaxNals == 2
MaxNalLen == 3

\* The bytes NALs are made of, the NALs, the sequences of NALs.
NalByteValues == {0, 1}
Nals == UNION {[1..n -> NalByteValues] : n \in 1..MaxNalLen}
NalSeqs == UNION {[1..k -> Nals] : k \in 0..MaxNals}

\* The AVCC packet of a sequence of NALs: [00 00 00 length | NAL] for each.
RECURSIVE AvccOf(_)
AvccOf(nals) ==
    IF nals = <<>> THEN <<>>
    ELSE <<0, 0, 0, Len(Head(nals))>> \o Head(nals) \o AvccOf(Tail(nals))

\* What may follow the well-formed tuples of a packet: nothing, a zero length
\* (alone, before a byte, before a whole tuple), a length overrunning the buffer,
\* a cut length prefix.
AvccTails ==
    {<<>>, <<0, 0, 0, 0>>, <<0, 0, 0, 0, 1>>, <<0, 0, 0, 0, 0, 0, 0, 1, 1>>,
     <<0, 0, 0, 2, 1>>, <<0, 0>>}

\* The packets of a stream detected as AVCC.
AvccInputs == {AvccOf(nals) \o tail : nals \in NalSeqs, tail \in AvccTails}

\* The bridge after it found its stream to be AVCC, before the frame at hand.
BridgeConverting ==
    [BridgeNew EXCEPT !.track_initialized = TRUE, !.conversion_checked = TRUE,
                      !.needs_conversion = TRUE]

\* The bridge of an AVCC stream converts one frame.
ConvNext == \E data \in AvccInputs : bridge.sent = None /\ BridgeFrame(data)

\* The first frame of a stream, then its later frames.
BsfNext ==
    \/ \E data \in Buffers : ~bridge.track_initialized /\ BridgeFrame(data)
    \/ \E data \in LaterBuffers : bridge.track_initialized /\ BridgeFrame(data)

(***************************************************************************)
(* Audio mixer task: DynamicMixerTask (audio_mixer.rs)                     *)
(***************************************************************************)

\* Bounds of the mixer model: the slots of the mixer (max_inputs), the frames a
\* source publishes, the capacity of a source's channel (32 in the test).
NumSlots == 2
MaxMixFrames == 3
SrcCap == 2

Slots == 1..NumSlots

\* DynamicMixerTask after start(): cmds, the command channel; src, each source's
\* channel; sub, the sub-task of each slot and its receiver's position; input_rx,
\* the frames forwarded to the main loop; graph, the frames queued at each
\* abuffer; out_sent, out_recv, the frames sent on raw_chan and received by its
\* subscriber; last_pull, what the last pull_frame returned.
MixerNew ==
    [added |-> {}, cmds |-> <<>>,
     src |-> [s \in Slots |-> BcNew],
     published |-> [s \in Slots |-> 0],
     sub |-> [s \in Slots |-> [pc |-> "none", pos |-> 0]],
     input_rx |-> <<>>,
     graph |-> [s \in Slots |-> 0],
     out_sent |-> 0, out_recv |-> 0, last_pull |-> "none"]

\* The caller subscribes to its source and hands the receiver to add_input, which
\* sends AddInput on the command channel.
MixAddInput(s) ==
    /\ s \notin mixer.added
    /\ mixer' = [mixer EXCEPT !.added = @ \cup {s},
                              !.cmds = Append(@, s),
                              !.sub[s].pos = BcEnd(mixer.src[s])]
    /\ UNCHANGED mixerOthers

\* A source publishes an audio frame after its receiver was subscribed.
MixSourcePublish(s) ==
    /\ s \in mixer.added
    /\ mixer.published[s] < MaxMixFrames
    /\ mixer' = [mixer EXCEPT !.src[s] = BcSend(@, Data(mixer.published[s] + 1), SrcCap),
                              !.published[s] = @ + 1]
    /\ UNCHANGED mixerOthers

\* The main loop receives AddInput: it spawns the sub-task of the slot.
MixHandleAddInput ==
    /\ mixer.cmds # <<>>
    /\ mixer' = [mixer EXCEPT !.cmds = Tail(@),
                              !.sub[Head(mixer.cmds)].pc = "run"]
    /\ UNCHANGED mixerOthers

\* A sub-task's receiver.recv() returns: an audio frame is sent on input_tx;
\* Err(_), Lagged included, breaks the loop.
MixSubRecv(s) ==
    /\ mixer.sub[s].pc = "run"
    /\ BcRecvKind(mixer.src[s], mixer.sub[s].pos) # "Empty"
    /\ LET kind == BcRecvKind(mixer.src[s], mixer.sub[s].pos)
       IN IF kind = "Item"
          THEN mixer' = [mixer EXCEPT !.sub[s].pos = @ + 1,
                                      !.input_rx = Append(@, s)]
          ELSE mixer' = [mixer EXCEPT !.sub[s].pc = "done"]
    /\ UNCHANGED mixerOthers

\* The main loop receives a forwarded frame: push_audio into the slot's abuffer.
MixPushAudio ==
    /\ mixer.input_rx # <<>>
    /\ mixer' = [mixer EXCEPT !.input_rx = Tail(@),
                              !.graph[Head(mixer.input_rx)] = @ + 1]
    /\ UNCHANGED mixerOthers

\* amix has a frame ready when every input has one queued.
FrameReady == \A s \in Slots : mixer.graph[s] >= 1

\* One iteration of mixer_output_loop_sync: pull_frame returns Some(frame), which
\* is sent on raw_chan, or, with no frame ready (EAGAIN), None.
MixPull ==
    /\ IF FrameReady
       THEN mixer' = [mixer EXCEPT !.graph = [s \in Slots |-> @[s] - 1],
                                   !.out_sent = @ + 1,
                                   !.last_pull = "Some"]
       ELSE /\ mixer.last_pull # "None"
            /\ mixer' = [mixer EXCEPT !.last_pull = "None"]
    /\ UNCHANGED mixerOthers

\* The subscriber of the mixer output receives a frame.
MixOutRecv ==
    /\ mixer.out_recv < mixer.out_sent
    /\ mixer' = [mixer EXCEPT !.out_recv = @ + 1]
    /\ UNCHANGED mixerOthers

MixNext ==
    \/ \E s \in Slots : MixAddInput(s)
    \/ \E s \in Slots : MixSourcePublish(s)
    \/ MixHandleAddInput
    \/ \E s \in Slots : MixSubRecv(s)
    \/ MixPushAudio
    \/ MixPull
    \/ MixOutRecv

(***************************************************************************)
(* Shared packets: RawPacket and its Arc (packet.rs)                       *)
(***************************************************************************)

NumSubscribers == 2

Subscribers == 1..NumSubscribers

\* The Arc allocations: 0 is the one of the published packet, s the private copy
\* subscriber s gets from Arc::make_mut.
Cells == 0..NumSubscribers

\* The fields a subscriber rewrites, in the order of AvOutput::write_packet:
\* set_pts, set_dts, set_stream, then the duration and, by the bitstream filter
\* that takes it out of the packet, the payload.
WriteOrder == <<"pts", "dts", "index", "duration", "data">>

\* The packet the reader published.
PublishedPacket == [index |-> 1, pts |-> Some(1), dts |-> Some(0), duration |-> 0,
                    data |-> 7]

\* What subscriber s writes into a field: set_stream(0), its own rescaled
\* timestamps, a duration, an emptied payload.
WrittenValue(f, s) ==
    CASE f = "index" -> 0
      [] f \in {"pts", "dts"} -> Some(s + 1)
      [] f = "duration" -> s
      [] f = "data" -> 0

\* rc: the strong count of each allocation (0: freed or not made); slot: the
\* channel still holds its clone of the item; subs: per subscriber, where it
\* stands, the allocation its RawPacket points to, whether it holds the &mut of
\* get_mut, how many fields it wrote.
SharedNew ==
    [rc |-> [c \in Cells |-> IF c = 0 THEN 1 ELSE 0],
     val |-> [c \in Cells |-> PublishedPacket],
     slot |-> TRUE,
     subs |-> [s \in Subscribers |->
                  [pc |-> "wait", cell |-> 0, own |-> FALSE, writes |-> 0,
                   in_place |-> FALSE]]]

\* Receiver::recv: the item is cloned out of the slot, Arc::clone adds an owner.
SharedRecv(s) ==
    /\ shared.subs[s].pc = "wait"
    /\ shared.slot
    /\ shared' = [shared EXCEPT !.rc[0] = @ + 1, !.subs[s].pc = "hold"]
    /\ UNCHANGED sharedOthers

\* The channel drops its clone once every receiver has taken the item.
SharedSlotRelease ==
    /\ shared.slot
    /\ \A s \in Subscribers : shared.subs[s].pc # "wait"
    /\ shared' = [shared EXCEPT !.slot = FALSE, !.rc[0] = @ - 1]
    /\ UNCHANGED sharedOthers

\* A get_mut that hands out the shared allocation itself.
MakeMutInPlace(sh, s) == [sh EXCEPT !.subs[s].own = TRUE, !.subs[s].in_place = TRUE]

\* Arc::make_mut: the sole owner mutates in place; otherwise the packet is cloned
\* into a new allocation, the old one loses an owner and the RawPacket points to
\* the new one.
MakeMut(sh, s) ==
    LET c == sh.subs[s].cell
    IN IF sh.rc[c] = 1
       THEN [sh EXCEPT !.subs[s].own = TRUE, !.subs[s].in_place = TRUE]
       ELSE [sh EXCEPT !.rc[c] = @ - 1, !.rc[s] = 1, !.val[s] = sh.val[c],
                       !.subs[s].cell = s, !.subs[s].own = TRUE]

\* RawPacket::get_mut (and the same two cases in set_duration).
SharedGetMut(s) ==
    /\ shared.subs[s].pc = "hold"
    /\ ~shared.subs[s].own
    /\ shared' = MakeMut(shared, s)
    /\ UNCHANGED sharedOthers

\* The next setter called through the &mut that get_mut returned.
SharedWrite(s) ==
    /\ shared.subs[s].pc = "hold"
    /\ shared.subs[s].own
    /\ shared.subs[s].writes < Len(WriteOrder)
    /\ LET f == WriteOrder[shared.subs[s].writes + 1]
       IN shared' = [shared EXCEPT !.val[shared.subs[s].cell][f] = WrittenValue(f, s),
                                   !.subs[s].writes = @ + 1]
    /\ UNCHANGED sharedOthers

\* The subscriber is done with its RawPacket and drops it.
SharedDrop(s) ==
    /\ shared.subs[s].pc = "hold"
    /\ shared' = [shared EXCEPT !.rc[shared.subs[s].cell] = @ - 1,
                                !.subs[s].pc = "done", !.subs[s].own = FALSE]
    /\ UNCHANGED sharedOthers

SharedNext ==
    \/ \E s \in Subscribers : SharedRecv(s)
    \/ SharedSlotRelease
    \/ \E s \in Subscribers : SharedGetMut(s)
    \/ \E s \in Subscribers : SharedWrite(s)
    \/ \E s \in Subscribers : SharedDrop(s)

(***************************************************************************)
(* The mixer's commands and its forwarding sub-tasks (audio_mixer.rs)      *)
(***************************************************************************)

\* Bounds: the sub-tasks spawned in one run, the frames forwarded into a slot
\* that was removed.
MaxSubTasks == 3
MaxStaleForwards == 1

SubTasks == 1..MaxSubTasks

\* A sub-task not spawned yet.
SubTaskNone == [slot |-> 0, pc |-> "none", cancelled |-> FALSE]

\* The main loop of DynamicMixerTask::start with an empty inputs map. token: per
\* slot the sub-task whose CancellationToken the map holds, 0 for no entry;
\* removed: the last command handled for the slot was RemoveInput; doubled: an
\* AddInput was handled for the slot while the map had an entry for it; stale:
\* frames forwarded into a removed slot by a sub-task whose token was never
\* cancelled.
InputsNew ==
    [loop |-> "select", spawned |-> 0,
     token |-> [s \in Slots |-> 0],
     tasks |-> [t \in SubTasks |-> SubTaskNone],
     removed |-> [s \in Slots |-> FALSE],
     doubled |-> [s \in Slots |-> FALSE],
     stale |-> 0]

\* inputs.insert(slot_idx, cancel): the token held before is dropped, which does
\* not cancel it.
Insert(inp, s, t) == [inp EXCEPT !.token[s] = t]

\* DynamicMixerCmd::AddInput: a new token, the sub-task spawned with its clone,
\* the token inserted under the slot.
MixCmdAddInput(s) ==
    /\ inputs.loop = "select"
    /\ inputs.spawned < MaxSubTasks
    /\ LET t == inputs.spawned + 1
           spawned == [inputs EXCEPT
                          !.spawned = t,
                          !.tasks[t] = [slot |-> s, pc |-> "run", cancelled |-> FALSE],
                          !.removed[s] = FALSE,
                          !.doubled[s] = @ \/ inputs.token[s] # 0]
       IN inputs' = Insert(spawned, s, t)
    /\ UNCHANGED inputsOthers

\* DynamicMixerCmd::RemoveInput: the entry of the slot, if any, is removed and
\* its token cancelled.
MixCmdRemoveInput(s) ==
    /\ inputs.loop = "select"
    /\ ~inputs.removed[s]
    /\ inputs' = [inputs EXCEPT
           !.removed[s] = TRUE,
           !.token[s] = 0,
           !.tasks = [u \in SubTasks |->
                         IF u = inputs.token[s] THEN [@[u] EXCEPT !.cancelled = TRUE]
                         ELSE @[u]]]
    /\ UNCHANGED inputsOthers

\* DynamicMixerTask::cancel: the main loop breaks and cancels the tokens its map
\* holds.
MixLoopCancelled ==
    /\ inputs.loop = "select"
    /\ inputs' = [inputs EXCEPT
           !.loop = "exited",
           !.tasks = [u \in SubTasks |->
                         IF \E s \in Slots : inputs.token[s] = u
                         THEN [@[u] EXCEPT !.cancelled = TRUE] ELSE @[u]]]
    /\ UNCHANGED inputsOthers

\* A sub-task's select! takes the branch of its token.
MixSubTaskCancelled(t) ==
    /\ inputs.tasks[t].pc = "run"
    /\ inputs.tasks[t].cancelled
    /\ inputs' = [inputs EXCEPT !.tasks[t].pc = "done"]
    /\ UNCHANGED inputsOthers

\* A sub-task's receiver.recv() returns Err(_): the source is gone or the
\* receiver lagged.
MixSubTaskSourceEnds(t) ==
    /\ inputs.tasks[t].pc = "run"
    /\ inputs' = [inputs EXCEPT !.tasks[t].pc = "done"]
    /\ UNCHANGED inputsOthers

\* A sub-task receives an audio frame and sends it on input_tx with its slot.
\* Counted are the frames sent for a removed slot by a sub-task whose token is
\* not cancelled.
MixSubTaskForward(t) ==
    /\ inputs.tasks[t].pc = "run"
    /\ inputs' = IF /\ ~inputs.tasks[t].cancelled
                    /\ inputs.removed[inputs.tasks[t].slot]
                    /\ inputs.stale < MaxStaleForwards
                 THEN [inputs EXCEPT !.stale = @ + 1]
                 ELSE inputs
    /\ UNCHANGED inputsOthers

MixCmdNext ==
    \/ \E s \in Slots : MixCmdAddInput(s)
    \/ \E s \in Slots : MixCmdRemoveInput(s)
    \/ MixLoopCancelled
    \/ \E t \in SubTasks : MixSubTaskCancelled(t)
    \/ \E t \in SubTasks : MixSubTaskSourceEnds(t)
    \/ \E t \in SubTasks : MixSubTaskForward(t)

(***************************************************************************)
(* The Pipe's bridge to a raw sink: forward_frame_stream_to_sink (pipe.rs) *)
(***************************************************************************)

\* Bounds: the frames the Bus stream yields, the None items among them, the
\* capacity of the sink's channel (32 in RawSinkSource::new).
MaxSinkFrames == 4
MaxSinkNones == 1
SinkCap == 2

\* The bridge task at its start, the sink empty and open. yielded: frames the
\* stream has yielded; nones: None items it yielded; queue: the frames in the
\* sink's channel; sent: frames try_send accepted; closed: the sink's receiver
\* is gone; ended_by: why the task returned.
SinkNew ==
    [pc |-> "run", yielded |-> 0, nones |-> 0, queue |-> <<>>, sent |-> 0,
     taken |-> 0, closed |-> FALSE, ended_by |-> "none"]

\* Sender::try_send on the sink's bounded channel.
SinkTrySend(k, frame) ==
    IF k.closed THEN [ok |-> FALSE, err |-> "closed", queue |-> k.queue]
    ELSE IF Len(k.queue) >= SinkCap THEN [ok |-> FALSE, err |-> "full", queue |-> k.queue]
    ELSE [ok |-> TRUE, err |-> "none", queue |-> Append(k.queue, frame)]

\* stream.next() yields Some(Some(frame)): the frame is converted and handed to
\* try_send; any error breaks the loop.
SinkBridgeFrame ==
    /\ sink.pc = "run"
    /\ sink.yielded < MaxSinkFrames
    /\ LET r == SinkTrySend(sink, sink.yielded + 1)
       IN sink' = IF r.ok
                  THEN [sink EXCEPT !.yielded = @ + 1, !.queue = r.queue, !.sent = @ + 1]
                  ELSE [sink EXCEPT !.yielded = @ + 1, !.pc = "done", !.ended_by = r.err]
    /\ UNCHANGED sinkOthers

\* stream.next() yields Some(None): nothing is sent, the loop goes on.
SinkBridgeNone ==
    /\ sink.pc = "run"
    /\ sink.nones < MaxSinkNones
    /\ sink' = [sink EXCEPT !.nones = @ + 1]
    /\ UNCHANGED sinkOthers

\* stream.next() yields None: the stream has ended and the task returns.
SinkBridgeStreamEnds ==
    /\ sink.pc = "run"
    /\ sink' = [sink EXCEPT !.pc = "done", !.ended_by = "stream"]
    /\ UNCHANGED sinkOthers

\* The reader of the sink takes a frame.
SinkReaderRecv ==
    /\ sink.queue # <<>>
    /\ ~sink.closed
    /\ sink' = [sink EXCEPT !.queue = Tail(@), !.taken = @ + 1]
    /\ UNCHANGED sinkOthers

\* The sink's receiver is closed.
SinkReaderCloses ==
    /\ ~sink.closed
    /\ sink' = [sink EXCEPT !.closed = TRUE]
    /\ UNCHANGED sinkOthers

SinkNext ==
    \/ SinkBridgeFrame
    \/ SinkBridgeNone
    \/ SinkBridgeStreamEnds
    \/ SinkReaderRecv
    \/ SinkReaderCloses

(***************************************************************************)
(* The Bus API: callers, the command channel and inner_loop (bus.rs)       *)
(***************************************************************************)

\* Bounds of the API model: the calls made on one Bus, the capacity of the
\* command channel (1024 in Bus::new).
NumCalls == 3
CmdChanCap == 2

Calls == 1..NumCalls

\* How inner_command_handler leaves the one-shot sender of its command: it sent
\* Ok, it sent Err, or a `?` returned and dropped the sender unused.
ReplyOutcomes == {"sent_ok", "sent_err", "dropped"}

\* A call of add_input, remove_input or add_output. pc: "none" not made, "send"
\* in self.tx.send(cmd).await, "wait" in rx.await, "returned". reply: its
\* one-shot channel, "open", holding a value, or "closed" (sender dropped).
CallNew == [pc |-> "none", reply |-> "open", result |-> "none"]

\* Bus::new. queue: the commands in the channel, by call; loop: inner_loop at its
\* select!, in the handler of the command `handling`, or returned (its receiver
\* dropped); cancel: Bus.cancel.
ApiNew ==
    [calls |-> [c \in Calls |-> CallNew], queue |-> <<>>, loop |-> "select",
     handling |-> 0, cancel |-> FALSE]

\* The caller creates the one-shot channel and starts to send its command.
ApiCallBegin(c) ==
    /\ api.calls[c].pc = "none"
    /\ api' = [api EXCEPT !.calls[c].pc = "send"]
    /\ UNCHANGED apiOthers

\* self.tx.send(cmd).await: Err once the loop has dropped its receiver (the `?`
\* returns it to the caller), the command queued when the channel has room,
\* otherwise the caller waits for room.
ApiSend(c) ==
    /\ api.calls[c].pc = "send"
    /\ api.loop = "exited" \/ Len(api.queue) < CmdChanCap
    /\ api' = IF api.loop = "exited"
              THEN [api EXCEPT !.calls[c].pc = "returned", !.calls[c].result = "Err"]
              ELSE [api EXCEPT !.calls[c].pc = "wait", !.queue = Append(@, c)]
    /\ UNCHANGED apiOthers

\* Bus::stop, also run by the drop of the Bus.
ApiBusStop ==
    /\ ~api.cancel
    /\ api' = [api EXCEPT !.cancel = TRUE]
    /\ UNCHANGED apiOthers

\* select!: Some(cmd) = rx.recv(); the handler of cmd starts.
LoopRecv ==
    /\ api.loop = "select"
    /\ api.queue # <<>>
    /\ api' = [api EXCEPT !.loop = "handling", !.handling = Head(api.queue),
                          !.queue = Tail(@)]
    /\ UNCHANGED apiOthers

\* inner_command_handler returns: the command and its one-shot sender are gone,
\* the loop is back at its select!.
LoopHandled(outcome) ==
    /\ api.loop = "handling"
    /\ api' = [api EXCEPT
           !.loop = "select", !.handling = 0,
           !.calls[api.handling].reply = IF outcome = "dropped" THEN "closed" ELSE outcome]
    /\ UNCHANGED apiOthers

\* A receiver that is dropped with its queued commands kept alive.
LeakCommands(a) == [a EXCEPT !.queue = <<>>]

\* The drop of the command receiver: the channel is closed and the commands still
\* queued are dropped, each with its one-shot sender.
DropCommands(a) ==
    [a EXCEPT !.queue = <<>>,
              !.calls = [c \in Calls |->
                            IF \E i \in 1..Len(a.queue) : a.queue[i] = c
                            THEN [@[c] EXCEPT !.reply = "closed"] ELSE @[c]]]

\* select!: cancel.cancelled(); break. inner_loop returns and drops rx and state.
LoopCancelled ==
    /\ api.loop = "select"
    /\ api.cancel
    /\ api' = [DropCommands(api) EXCEPT !.loop = "exited"]
    /\ UNCHANGED apiOthers

\* rx.await? of the caller: the value the handler sent, or Err(RecvError) when
\* the sender was dropped.
ApiReturn(c) ==
    /\ api.calls[c].pc = "wait"
    /\ api.calls[c].reply # "open"
    /\ api' = [api EXCEPT !.calls[c].pc = "returned",
                          !.calls[c].result = IF api.calls[c].reply = "sent_ok"
                                              THEN "Ok" ELSE "Err"]
    /\ UNCHANGED apiOthers

ApiNext ==
    \/ \E c \in Calls : ApiCallBegin(c)
    \/ \E c \in Calls : ApiSend(c)
    \/ ApiBusStop
    \/ LoopRecv
    \/ \E outcome \in ReplyOutcomes : LoopHandled(outcome)
    \/ LoopCancelled
    \/ \E c \in Calls : ApiReturn(c)

(***************************************************************************)
(* Claims about the output muxers                                          *)
(***************************************************************************)

\* a >= b as the muxer compares two DTS: an unset one is AV_NOPTS_VALUE, the
\* least 64-bit value.
DtsGe(a, b) ==
    IF b = None THEN TRUE ELSE IF a = None THEN FALSE ELSE Unwrap(a) >= Unwrap(b)

\* One output stream's log obeys the DTS rule: the DTS of the packet handed to
\* the muxer is not less than the previous one's; if it arrived at or below
\* last_dts it was rewritten to last_dts + 1 with PTS >= DTS.
DtsRuleHolds(log) ==
    /\ log.writes >= 2 => DtsGe(log.cur.dts, log.prev.dts)
    /\ (log.writes >= 1 /\ IsSome(log.cur.last) /\ DtsGe(log.cur.last, log.cur.arrived))
          => /\ log.cur.dts = Some(Unwrap(log.cur.last) + 1)
             /\ DtsGe(log.cur.pts, log.cur.dts)

AvOutputDtsRule == \A s \in MuxStreams : DtsRuleHolds(muxed.avoutput[s])

\* C4: on every output stream of AvOutput and of AvOutputStreamWriter, each packet
\* handed to the muxer has a DTS not less than the previous packet's DTS on that
\* stream; a packet arriving with dts <= last_dts is rewritten to last_dts + 1 and
\* its PTS then is >= the new DTS.
C4_DtsMonotonic == AvOutputDtsRule /\ DtsRuleHolds(muxed.writer)

\* The packet last handed to the muxer on this log has both timestamps.
BothTimestampsSet(log) ==
    log.writes >= 1 => (IsSome(log.cur.pts) /\ IsSome(log.cur.dts))

\* C30: the timestamp normalisation holds in both writers: every packet handed
\* to the muxer by AvOutput::write_packet and by
\* AvOutputStreamWriter::write_packet has both PTS and DTS set.
C30_TimestampsNormalised ==
    /\ \A s \in MuxStreams : BothTimestampsSet(muxed.avoutput[s])
    /\ BothTimestampsSet(muxed.writer)

\* AvOutput::write_packet alone normalises.
C30_AvOutputNormalises == \A s \in MuxStreams : BothTimestampsSet(muxed.avoutput[s])

\* C5: a muxer writes its trailer at most once and never before its header; once
\* its task has seen the end of its upstream and called finish, a muxer that
\* wrote at least one packet has written the trailer exactly once; a later finish
\* or the drop writes nothing more.
C5_TrailerOnce ==
    /\ muxed.trailer.avoutput <= 1
    /\ muxed.trailer.writer <= 1
    /\ ~muxed.trailer_before_header
    /\ (muxed.avoutput_task_ended /\ \E s \in MuxStreams : muxed.avoutput[s].writes >= 1)
          => muxed.trailer.avoutput = 1
    /\ (writer.task_ended /\ muxed.writer.writes >= 1) => muxed.trailer.writer = 1

\* The writer wrote packets, its task finished it and it was then dropped (a
\* second finish), with one trailer written.
C5_Witness ==
    /\ writer.dropped
    /\ muxed.writer.writes >= 2
    /\ muxed.trailer.writer = 1

(***************************************************************************)
(* Claims about the encoder hand-off queue                                 *)
(***************************************************************************)

DataCount(q) == Cardinality({i \in 1..Len(q) : IsData(q[i])})

\* C8: the encoder input queue never holds more than FRAME_QUEUE_BOUND items; the
\* forwarder never blocks on a data frame (only the EOF send may wait); and every
\* data frame the forwarder received was enqueued, refused because the receiver
\* was gone, or dropped with dropped_count advanced by exactly one.
C8_QueueBoundedDropCounted ==
    /\ Len(enc_queue) <= FRAME_QUEUE_BOUND
    /\ enc_fwd.pc = "send" => enc_fwd.item = EOF
    /\ enc_fwd.received = enc_loop.dequeued + DataCount(enc_queue)
                            + enc_fwd.disconnected + enc_fwd.dropped_count

\* Two frames were dropped at a full queue and the forwarder is back at recv.
C8_Witness ==
    /\ enc_fwd.dropped_count >= 2
    /\ Len(enc_queue) = FRAME_QUEUE_BOUND
    /\ enc_fwd.pc = "recv"

\* C9: absent cancellation, once the forwarder has received EOF from upstream,
\* also with the queue full at that moment, the encode loop eventually dequeues
\* it, flushes and publishes EOF on the encoder output channel.
C9_EofNeverDropped == enc_fwd.got_eof ~> (enc_loop.out_eof = 1 /\ enc_loop.pc = "exited")

\* EOF met a full queue, waited, and EOF was published downstream.
C9_Witness ==
    /\ enc_fwd.eof_waited
    /\ enc_loop.out_eof = 1

\* C18: the PTS synthesised for a frame submitted without a PTS is strictly
\* greater than the PTS given to every PTS-less frame the encoder accepted before
\* it, whatever successful and failed submissions and drops at the queue came
\* before.
C18_SynthesisedPtsIncreases ==
    (IsSome(enc_loop.synth.pts) /\ IsSome(enc_loop.synth.before)) =>
        Unwrap(enc_loop.synth.pts) > Unwrap(enc_loop.synth.before)

\* A PTS-less frame was submitted after an accepted PTS-less frame, a failed
\* submission and a drop at the full queue, and got a PTS two or more above.
C18_Witness ==
    /\ IsSome(enc_loop.synth.before)
    /\ Unwrap(enc_loop.synth.pts) >= Unwrap(enc_loop.synth.before) + 2
    /\ enc_loop.dequeued > enc_loop.frame_index
    /\ enc_fwd.dropped_count >= 1

\* This step is the forwarder receiving a data frame while the encode loop holds
\* the queue's receiver and the queue is full.
FrameArrivesAtFullQueue ==
    /\ enc_fwd'.received = enc_fwd.received + 1
    /\ EncRxAlive
    /\ Len(enc_queue) = FRAME_QUEUE_BOUND

\* C31: the encoder input queue uses oldest-drop: a data frame that arrives at
\* the full queue is enqueued and the oldest queued item is discarded.
C31_OldestDropped ==
    [][FrameArrivesAtFullQueue =>
          enc_queue' = Append(Tail(enc_queue),
                              Data(enc_fwd'.seen[Len(enc_fwd'.seen)]))]_vars

\* What try_send does instead: the arriving frame is the one discarded, the
\* queue keeps the frames it held.
C31_ArrivingFrameDropped ==
    [][FrameArrivesAtFullQueue =>
          /\ enc_queue' = enc_queue
          /\ enc_fwd'.dropped_count = enc_fwd.dropped_count + 1]_vars

(***************************************************************************)
(* Claims about the pipeline of one output                                 *)
(***************************************************************************)

\* The packets of stream i among a sequence of packets, in order.
OfStream(seq, i) == SelectSeq(seq, LAMBDA p : p.stream = i)

\* A sequence of packets is in the reader's emission order without repetition,
\* and holds only packets the reader emitted.
InEmissionOrder(seq) ==
    /\ \A j \in 1..Len(seq) : seq[j] \in {reader.log[k] : k \in 1..Len(reader.log)}
    /\ \A j, k \in 1..Len(seq) : j < k => seq[j].seq < seq[k].seq

\* What each subscriber of a fan-out channel has observed.
Observed == <<mux_task.seen, dec_fwd.seen, enc_fwd.seen, adapter.seen, consumer.seen>>

\* C3: for every stream index i and every subscriber of a fan-out channel (direct
\* mux task, decoder forwarder, encoder forwarder, raw-video adapter, output
\* stream), the items of stream i it has observed are in the order in which the
\* reader emitted them, none twice and none out of order, also across a lag.
C3_PerStreamFifo ==
    \A n \in 1..Len(Observed) : \A i \in PipeStreams :
        InEmissionOrder(OfStream(Observed[n], i))

\* A mux task lagged, resumed and went on observing; the consumer of its stream
\* received messages.
C3_Witness ==
    /\ pipe_kind = "Mux"
    /\ mux_task.lagged
    /\ Len(mux_task.seen) >= 2
    /\ Len(consumer.seen) >= 1

\* The first n data items the reader published.
Published(n) == SubSeq(reader.log, 1, IF n < Len(reader.log) THEN n ELSE Len(reader.log))

C10_LagSurvivable ==
    /\ mux_task.lagged => mux_task.pc # "stuck"
    /\ adapter.lagged => adapter.pc # "stuck"
    /\ dec_fwd.lagged => dec_fwd.pc # "stuck"
    /\ enc_fwd.lagged => enc_fwd.pc # "stuck"

\* The subscribers whose loop continues after Lagged do survive it.
C10_MuxAndAdapterSurvive ==
    /\ mux_task.lagged => mux_task.pc # "stuck"
    /\ adapter.lagged => adapter.pc # "stuck"

\* The returned stream has signalled termination: it ended or yielded None.
StreamTerminated == consumer.ended \/ consumer.nones + consumer.lag_nones > 0

\* C6: for a finite input and an output added before reading starts, once the
\* reader has published EOF the returned stream eventually signals termination.
C6_StreamTerminates == reader.eof ~> StreamTerminated

\* Every worker of the output's subgraph has left its loops and ended.
WorkersTerminated ==
    /\ mux_task.pc \in {"none", "done"}
    /\ dec_fwd.pc \in {"none", "done"}
    /\ dec_loop.pc \in {"none", "exited"}
    /\ adapter.pc \in {"none", "done"}
    /\ enc_fwd.pc \in {"none", "done"}
    /\ enc_loop.pc \in {"none", "exited"}

\* The input channel was closed and the reader never published EOF on it.
ClosedWithoutEof == in_ch.closed /\ ~reader.eof

\* C11: once the input channel is closed without an EOF item (RemoveInput), every
\* worker subscribed to it - direct mux task, decoder worker, encoder worker,
\* raw-video adapter - eventually terminates and the output's stream eventually
\* signals its end.
C11_ClosureTerminatesDownstream ==
    ClosedWithoutEof ~> (WorkersTerminated /\ StreamTerminated)

\* Some subscriber was handed the lag signal.
AnyLagged ==
    mux_task.lagged \/ dec_fwd.lagged \/ enc_fwd.lagged \/ adapter.lagged
      \/ consumer.lagged

\* The same for the runs in which no subscriber ever lags.
C11_ClosureWithoutLag ==
    (ClosedWithoutEof /\ ~AnyLagged) ~>
        ((WorkersTerminated /\ StreamTerminated) \/ AnyLagged)

\* The direct mux tasks do end on closure, and their streams with them.
C11_MuxTaskEndsOnClosure ==
    (ClosedWithoutEof /\ HasMuxTask(pipe_kind)) ~> (mux_task.pc = "done" /\ consumer.ended)

\* C17: once the Bus has been stopped or dropped, the cancellation of the reader
\* it was running has been signalled (the read loop leaves only on its
\* cancellation or when read_packet returns None, so nothing else stops the
\* reader of an input that never ends).
C17_ShutdownStopsReader ==
    handler.pc = "stopped" => (reader.cancel \/ reader.pc = "done")

\* RemoveInput does signal the reader it takes.
C17_RemoveInputSignalsReader ==
    (~reader.task_held /\ handler.pc = "idle") => reader.cancel

\* C23: every fan-out or hand-off queue has a fixed capacity its length never
\* exceeds; the queue from the decoder's async receiver to the blocking decode
\* loop stays within the hand-off capacity when the decode loop is slower than
\* the reader.
C23_QueuesBounded ==
    /\ Len(in_ch.buf) <= InChanCap
    /\ Len(enc_up.ch.buf) <= EncUpCap
    /\ Len(enc_out.buf) <= EncOutCap
    /\ Len(consumer.msgs) <= MuxOutCap
    /\ Len(enc_queue) <= FRAME_QUEUE_BOUND
    /\ Len(dec_queue) <= FRAME_QUEUE_BOUND

\* The channels and queues created with a capacity keep to it.
C23_CapacityQueuesBounded ==
    /\ Len(in_ch.buf) <= InChanCap
    /\ Len(enc_up.ch.buf) <= EncUpCap
    /\ Len(enc_out.buf) <= EncOutCap
    /\ Len(consumer.msgs) <= MuxOutCap
    /\ Len(enc_queue) <= FRAME_QUEUE_BOUND

\* The decoder's queue never holds the whole input, its EOF included.
C23_DecQueueNeverHoldsWholeInput == Len(dec_queue) < MaxPackets + 1

\* C24: a codec error is fatal to the worker loop: once the encoder's drain is
\* ended by an error from receive_packet, or the decoder's by an error from
\* receive_frame, the loop has terminated and published EOF.
C24_CodecErrorIsFatal ==
    /\ enc_loop.recv_err => (enc_loop.pc = "exited" /\ enc_loop.out_eof = 1)
    /\ dec_loop.recv_err => (dec_loop.pc = "exited" /\ dec_loop.out_eof = 1)

\* An error that ends the drain after EOF was dequeued is followed by the exit.
C24_ErrorAfterEofExits ==
    /\ (enc_loop.recv_err /\ enc_loop.pc = "exited") => enc_loop.out_eof = 1
    /\ (dec_loop.recv_err /\ dec_loop.pc = "exited") => dec_loop.out_eof = 1

\* C25: each decoder worker and each encoder worker publishes EOF exactly once,
\* as its final publication, on every exit of its loop (cancellation, or the
\* upstream EOF after the flush): a loop that has exited has published one EOF, a
\* running loop none, and no Data follows the EOF.
C25_EofOnceAndLast ==
    /\ dec_loop.pc = "exited" => dec_loop.out_eof = 1
    /\ dec_loop.pc = "run" => dec_loop.out_eof = 0
    /\ ~dec_loop.data_after_eof
    /\ enc_loop.pc = "exited" => enc_loop.out_eof = 1
    /\ enc_loop.pc = "run" => enc_loop.out_eof = 0
    /\ ~enc_loop.data_after_eof

\* The decoder left on cancellation with frames still queued; the encoder left on
\* the EOF that followed, after packets of its own.
C25_Witness ==
    /\ dec_loop.pc = "exited" /\ dec_loop.cancel /\ dec_queue # <<>>
    /\ enc_loop.pc = "exited" /\ ~enc_cancel /\ enc_loop.out_data > 0

\* The encoder left on cancellation, the decoder on the input's EOF.
C25_CancelledEncoderWitness ==
    /\ enc_loop.pc = "exited" /\ enc_cancel /\ enc_queue # <<>>
    /\ dec_loop.pc = "exited" /\ ~dec_loop.cancel

\* The hand-off queue's sender outlives the loop: the forwarder keeps it until
\* the loop has exited, so the loop never finds the queue disconnected.
C25_SenderOutlivesLoop ==
    /\ dec_fwd.pc = "done" => dec_loop.pc = "exited"
    /\ enc_fwd.pc = "done" => enc_loop.pc = "exited"

\* C26: a cancelled reader publishes no EOF: once AvInputTask::stop has signalled
\* the cancellation the reader publishes nothing more on the input channel,
\* neither EOF nor Data, even when the read in progress returns end of stream.
C26_CancelledReaderPublishesNothing ==
    [][reader.cancel => BcEnd(in_ch') = BcEnd(in_ch)]_vars

\* The EOF alone: no EOF is published once the cancellation is signalled.
C26_NoEofAfterCancellation ==
    [][reader.cancel => (reader'.eof = reader.eof)]_vars

\* A reader that finds the token cancelled at the test at the top of its loop
\* exits without publishing.
C26_SilentAtCancellationCheck ==
    [][(reader.cancel /\ reader.pc = "run") => BcEnd(in_ch') = BcEnd(in_ch)]_vars

\* C29: the stream a builder returns yields None only for the upstream's EOF: a
\* lag or receive error of the underlying channel is never presented as None, and
\* an upstream EOF is always presented as None, never as a silent end of the
\* stream.
C29_NoneIffEof ==
    /\ consumer.lag_nones = 0
    /\ consumer.nones > 0 => reader.eof
    /\ (consumer.ended /\ reader.eof) => consumer.nones > 0

\* The stream of the decoded-frames builder presents a lag as None.
C29_LagNeverNone == consumer.lag_nones = 0

\* The streams of the mux and file builders end without a None.
C29_EofNeverSilent == (consumer.ended /\ reader.eof) => consumer.nones > 0

\* The encoded-packets builder does as claimed: None for EOF alone, and no end of
\* the stream before it.
C29_EncodedBuilderNoneIffEof ==
    pipe_kind \in {"Encoded", "RawVideoEncoded"} =>
        /\ consumer.lag_nones = 0
        /\ consumer.nones > 0 => enc_loop.out_eof = 1
        /\ consumer.ended => consumer.nones > 0

\* Pipe::start after Pipe::cancel: remove_input and Bus::stop have both returned
\* and the facade awaits the bridge task of the output.
PipeShutDown == reader.cancel /\ handler.pc = "stopped"

\* The bridge of a Zlm, RawFrame or RawPacket output, fed by an open sink with
\* room, returns when the stream it reads ends; a Net output has no bridge.
BridgeJoined == pipe_kind = "File" \/ consumer.ended

\* C33: after Pipe::cancel the facade's start returns: once remove_input and
\* Bus::stop are done, the stream of every awaited bridge task eventually ends,
\* whatever the kind of the output.
C33_ShutdownTerminates == PipeShutDown ~> BridgeJoined

\* The shutdown does complete when the reader had published EOF before it was
\* cancelled and no worker has lagged: every worker left on the EOF item.
C33_ShutdownAfterEofTerminates ==
    (PipeShutDown /\ reader.eof /\ ~AnyLagged) ~> (BridgeJoined \/ AnyLagged)

\* It completes for an output fed by the mux task alone, which ends on closure.
C33_MuxBridgeTerminates == (PipeShutDown /\ HasMuxTask(pipe_kind)) ~> BridgeJoined

\* The mux task of the output subscribed after the reader had published EOF: the
\* EOF item lies behind its position.
AddedAfterEof ==
    mux_task.pc = "recv" /\ reader.eof /\ mux_task.pos = BcEnd(in_ch)

\* C35: an output added after the reader has published EOF and exited, the input
\* task still present, eventually receives end-of-stream: its mux task
\* terminates and its stream ends.
C35_LateOutputEnds == AddedAfterEof ~> (mux_task.pc = "done" /\ consumer.ended)

\* An output added before EOF was published does end.
C35_EarlyOutputEnds ==
    (mux_task.pc = "recv" /\ ~reader.eof) ~> (mux_task.pc = "done" /\ consumer.ended)

\* The late output ends when RemoveInput closes the channel, and only then.
C35_LateOutputEndsOnRemoval ==
    [][(AddedAfterEof /\ mux_task'.pc = "done") => in_ch.closed]_vars

(***************************************************************************)
(* Claims about the command loop                                           *)
(***************************************************************************)

\* While an AddOutput that ran phase 1 is between phase 1 and phase 2, the input
\* task it prepared has not been started and has published nothing.
ReaderWaitsForSubscription ==
    (handler.pc # "idle" /\ handler.deferred) =>
        /\ IsSome(bus_state.input_task)
        /\ ~Unwrap(bus_state.input_task).started
        /\ Unwrap(bus_state.input_task).count = 0

\* C1: when AddOutput is handled with an input configured and no input task, the
\* reader publishes nothing until the subscriptions of the new output's subgraph
\* are registered on the input channel, and so the first packet the reader
\* publishes reaches a subgraph that is fed by that channel.
C1_TwoPhaseStart ==
    /\ ReaderWaitsForSubscription
    /\ \A o \in OutputIds :
          (bus_log.outs[o].registered /\ bus_log.outs[o].two_phase_gen > 0)
              => ~bus_log.outs[o].missed_first

\* C2: for every AddInput and every AddOutput the handler has finished, exactly
\* one reply was sent on the command's reply channel.
C2_ExactlyOneReply ==
    bus_log.last.kind \in {"AddInput", "AddOutput"} => bus_log.last.replies = 1

\* The BusState before the command the handler is busy with or takes next.
StateBefore == IF handler.pc = "idle" THEN bus_state ELSE handler.before

\* BusState without the progress of the read loop.
Pipeline(st) ==
    [st EXCEPT !.input_task = IF @ = None THEN None
                              ELSE Some([Unwrap(@) EXCEPT !.count = 0])]

\* A step with which the handling of a command of the given kind ends.
Ends(kind) ==
    /\ handler'.pc = "idle"
    /\ bus_log'.last.kind = kind
    /\ handler.pc # "idle" \/ bus_log'.commands = bus_log.commands + 1

\* The AddOutput ending with this step failed, and its id was a duplicate or no
\* input was configured when it was taken.
ConfigurationFailure ==
    /\ Ends("AddOutput")
    /\ bus_log'.last.path \notin OkPaths
    /\ bus_log'.last.path = "duplicate" \/ StateBefore.input_config = None

\* C12: an AddOutput that fails because its id is a duplicate or because no input
\* is configured has sent its error on the reply channel (one reply) and leaves
\* input_config, input_task, input_streams, output_config, decoder_tasks and
\* encoder_tasks as they were before the command.
C12_ConfigErrorNoStateChange ==
    [][ConfigurationFailure =>
          /\ bus_log'.last.replies = 1
          /\ Pipeline(bus_state') = Pipeline(StateBefore)]_vars

\* The frame half alone, for the failures that were replied to.
C12_RepliedConfigErrorNoStateChange ==
    [][(ConfigurationFailure /\ bus_log'.last.replies = 1)
          => Pipeline(bus_state') = Pipeline(StateBefore)]_vars

\* A duplicate id is replied to and changes nothing.
C12_DuplicateNoStateChange ==
    [][(ConfigurationFailure /\ bus_log'.last.path = "duplicate")
          => /\ bus_log'.last.replies = 1
             /\ Pipeline(bus_state') = Pipeline(StateBefore)]_vars

\* The AddOutput ending with this step ran phase 1 and failed after it.
FailsAfterPhase1 ==
    /\ Ends("AddOutput")
    /\ handler.deferred
    /\ bus_log'.last.path \notin OkPaths

\* C13: when an AddOutput fails after phase 1 prepared the input (no stream of
\* the requested medium, decoder or encoder construction failure, output open
\* failure), the prepared input task has been released when the handler is done:
\* input_task is absent, neither allocated and never started nor started with no
\* subscriber of the failed output.
C13_FailureReleasesInputTask ==
    [][FailsAfterPhase1 => bus_state'.input_task = None]_vars

\* On the paths that leave through `?` the prepared task is never started.
C13_EarlyReturnNeverStarts ==
    [][(FailsAfterPhase1 /\ bus_log'.last.replies = 0)
          => (IsSome(bus_state'.input_task) /\ ~Unwrap(bus_state'.input_task).started)]_vars

\* On the builder's failure the prepared task has been started.
C13_BuilderFailureStarts ==
    [][(FailsAfterPhase1 /\ bus_log'.last.replies = 1)
          => (IsSome(bus_state'.input_task) /\ Unwrap(bus_state'.input_task).started)]_vars

C15_RemoveInputFrame ==
    [][/\ Ends("RemoveInput") =>
             /\ bus_log'.last.replies = 1
             /\ bus_log'.last.path \in OkPaths
             /\ bus_state'.input_task = None
             /\ bus_state'.input_config = None
             /\ IsSome(bus_state.input_task) =>
                    bus_log'.stopped = TaskGen(bus_state.input_task)
             /\ bus_state'.output_config = bus_state.output_config
             /\ bus_state'.decoder_tasks = bus_state.decoder_tasks
             /\ bus_state'.encoder_tasks = bus_state.encoder_tasks
       /\ (Ends("AddInput") /\ bus_log.last.kind = "RemoveInput") =>
             bus_log'.last.path # "input_exists"]_vars

\* A running input with an output and its decoder worker was removed, and the
\* AddInput handled next was accepted and started a new reader.
C15_Witness ==
    /\ bus_log.prev.kind = "RemoveInput"
    /\ bus_log.last.kind = "AddInput"
    /\ bus_log.last.path = "started"
    /\ bus_log.stopped = 1
    /\ IsSome(bus_state.decoder_tasks)
    /\ bus_state.output_config # {}

\* C16: when AddInput is handled with outputs registered and no input task, so
\* that it prepares and starts a new input task, every registered output's
\* subgraph is fed by the new task's channel when the read loop begins.
C16_AddInputResubscribesOutputs ==
    (bus_log.last.kind = "AddInput" /\ bus_log.last.path = "started") =>
        \A o \in bus_state.output_config :
            bus_log.outs[o].attached = TaskGen(bus_state.input_task)

\* The new input task itself is prepared and started by that AddInput.
C16_AddInputStartsReader ==
    (bus_log.last.kind = "AddInput" /\ bus_log.last.path = "started") =>
        /\ IsSome(bus_state.input_task)
        /\ Unwrap(bus_state.input_task).started
        /\ TaskGen(bus_state.input_task) = bus_log.gens

\* The AddOutput handler has built the stream of a network output.
NetStreamBuilt ==
    handler.pc = "finish" /\ handler.stream_result = "ok" /\ handler.dest = "Net"

\* C19: a network output configured with an encode config is encoded: the
\* packets written to its muxer come from the encoder worker, never straight
\* from the input channel.
C19_NetOutputWithEncodeIsEncoded ==
    (NetStreamBuilt /\ handler.encode) => handler.source = "encoder"

\* A network output with no encode config is remuxed from the input's packets.
C19_NetOutputWithoutEncodeIsRemuxed ==
    (NetStreamBuilt /\ ~handler.encode) => handler.source = "input"

\* The encoder worker the encode config asked for is running all the same.
C19_EncoderStartedForNetOutput ==
    (NetStreamBuilt /\ handler.encode) => IsSome(bus_state.encoder_tasks)

\* AddOutput has taken its two decisions for the stream it found.
DecisionsTaken == handler.pc = "finish"

\* The codec of the input stream the decisions were taken for.
DecidedCodec == Head(bus_state.input_streams).codec

\* The rule for the encoder: Encoded-packet sinks, Mux sinks whose format names a
\* codec other than the input's, any output with an encode config, and any input
\* of raw pixels or wrapped frames.
RuleNeedsEncoder(codec, dest, encode) ==
    \/ dest = "Encoded"
    \/ dest = "MuxH264" /\ codec # "H264"
    \/ encode
    \/ codec \in {"RAWVIDEO", "WRAPPED_AVFRAME"}

\* The rule for the decoder: never for raw pixels; Raw, Net and Encoded sinks;
\* Mux sinks when the input is wrapped frames or an encoder is needed; not File.
RuleNeedsDecoder(codec, dest, encode) ==
    /\ codec # "RAWVIDEO"
    /\ \/ dest \in {"Raw", "Net", "Encoded"}
       \/ /\ dest \in {"MuxH264", "MuxOther"}
          /\ codec = "WRAPPED_AVFRAME" \/ RuleNeedsEncoder(codec, dest, encode)

C27_ConfigWitness ==
    /\ DecisionsTaken
    /\ handler.dest = "File" /\ handler.encode /\ DecidedCodec = "H264"
    /\ handler.need_encoder /\ ~handler.need_decoder

\* The builder of the output being added subscribed to the encoder worker.
EncoderFedOutputBuilt ==
    /\ handler.pc = "finish"
    /\ handler.stream_result = "ok"
    /\ handler.source = "encoder"

\* C28: a running encoder is reused only for the same transform: an output that
\* carries an encode config never receives the packets of an encoder built for
\* another output's absent (or different) encode config.
C28_EncoderReusedForSameConfig ==
    (EncoderFedOutputBuilt /\ handler.encode) => bus_log.enc_encode = Some(TRUE)

\* An output that built its encoder itself gets the encoder of its own config.
C28_OwnEncoderHasOwnConfig ==
    (EncoderFedOutputBuilt /\ handler.before.encoder_tasks = None)
        => bus_log.enc_encode = Some(handler.encode)

\* AddOutput has found its stream, the stream does not carry raw pixels, the
\* rules ask for an encoder and none runs yet: start_encoder_task is about to
\* subscribe the new encoder to the decoder worker.
EncoderToBeStarted ==
    /\ handler.pc = "build"
    /\ bus_state.input_streams # <<>>
    /\ handler.av_type = "Video"
    /\ DecidedCodec # "RAWVIDEO"
    /\ TryEncoder(DecidedCodec, handler.dest, handler.encode)
    /\ bus_state.encoder_tasks = None

\* A decoder worker runs already or this AddOutput starts one first.
DecoderExistsOrStarted ==
    IsSome(bus_state.decoder_tasks) \/ TryDecoder(DecidedCodec, handler.dest, handler.encode)

\* C34: whenever AddOutput decides that an encoder is needed for an input stream
\* that is not raw pixels, a decoder worker exists by the time the encoder is
\* started, whatever the earlier outputs were: the start of the encoder never
\* fails with 'decoder task not found'.
C34_DecoderExistsForEncoder == EncoderToBeStarted => DecoderExistsOrStarted

\* Every destination but File gets its decoder from the rules.
C34_DecoderExistsUnlessFile ==
    (EncoderToBeStarted /\ handler.dest # "File") => DecoderExistsOrStarted

\* C36: input_streams describes exactly the streams of the input that is open:
\* it is empty when no input task exists and holds the one stream of the open
\* input once otherwise, whatever commands were handled before.
C36_StreamsOfOpenInput ==
    IF bus_state.input_task = None
    THEN bus_state.input_streams = <<>>
    ELSE /\ Len(bus_state.input_streams) = 1
         /\ bus_state.input_streams[1].gen = TaskGen(bus_state.input_task)

\* The other half of the claim: the stream an AddOutput selects belongs to the
\* input that is open when it is selected.
C36_SelectedStreamIsCurrent ==
    (handler.pc = "build" /\ bus_state.input_streams # <<>>)
        => Head(bus_state.input_streams).gen = TaskGen(bus_state.input_task)

\* What the code keeps: the descriptor pushed last is of the open input.
C36_NewestStreamIsCurrent ==
    IsSome(bus_state.input_task)
        => /\ bus_state.input_streams # <<>>
           /\ bus_state.input_streams[Len(bus_state.input_streams)].gen
                  = TaskGen(bus_state.input_task)

\* The step is the handling of an AddInput; one whose prepare_input_task could
\* not open the input: the only error of add_input_internal besides 'input
\* already exists'.
AddInputHandled ==
    /\ bus_log'.commands = bus_log.commands + 1
    /\ handler' = handler
    /\ bus_log'.last.kind = "AddInput"

AddInputOpenFailed == AddInputHandled /\ bus_log'.last.path = "open_failed"

\* C37: when AddInput returns an error other than 'input already exists', the
\* input configuration is left unset, so that a retried AddInput is accepted.
C37_FailedAddInputLeavesNoConfig ==
    [][AddInputOpenFailed => bus_state'.input_config = None]_vars

\* The failed AddInput stores its config and changes nothing else.
C37_FailedAddInputStoresConfig ==
    [][AddInputOpenFailed =>
          /\ bus_state.input_config = None
          /\ IsSome(bus_state'.input_config)
          /\ bus_state' = [bus_state EXCEPT !.input_config = bus_state'.input_config]]_vars

\* The AddInput that follows it is rejected.
C37_RetryRejected ==
    [][(bus_log.last.kind = "AddInput" /\ bus_log.last.path = "open_failed"
          /\ AddInputHandled)
       => bus_log'.last.path = "input_exists"]_vars

(***************************************************************************)
(* Claims about bitstream detection                                        *)
(***************************************************************************)

\* The buffer begins with a start code 00 00 01 or 00 00 00 01.
BeginsWithStartCode(data) ==
    \/ Len(data) >= 3 /\ data[1] = 0 /\ data[2] = 0 /\ data[3] = 1
    \/ Len(data) >= 4 /\ data[1] = 0 /\ data[2] = 0 /\ data[3] = 0 /\ data[4] = 1

\* From byte i on the buffer is a sequence of 4-byte big-endian length prefixes,
\* each followed by that many NAL bytes, at least one.
RECURSIVE AvccFrom(_, _)
AvccFrom(data, i) ==
    IF i > Len(data) THEN TRUE
    ELSE /\ i + 3 <= Len(data)
         /\ LET n == LengthPrefix(data, i)
            IN n >= 1 /\ i + 3 + n <= Len(data) /\ AvccFrom(data, i + 4 + n)

WellFormedAvcc(data) == Len(data) > 0 /\ AvccFrom(data, 1)

\* The bridge has checked the format of its stream on the frame it holds.
FirstFrameChecked == bridge.first /\ bridge.conversion_checked

\* C20: detection is exact: is_annexb_packet is true for every buffer that begins
\* with a start code and false for every well-formed AVCC buffer, whatever the
\* first NAL's length, so the bridge converts exactly the AVCC inputs.
C20_DetectionExact ==
    FirstFrameChecked =>
        /\ BeginsWithStartCode(bridge.data) => ~bridge.needs_conversion
        /\ WellFormedAvcc(bridge.data) => bridge.needs_conversion

\* C20 as the code has it: is_annexb_packet is true exactly for the buffers of
\* four or more bytes that begin with a start code, so the bridge converts the
\* streams whose first frame is shorter or begins otherwise; a well-formed AVCC
\* frame that does not begin with the bytes of a start code is converted, and
\* what is sent begins with a start code.
C20_DetectionByPrefix ==
    FirstFrameChecked =>
        /\ ~bridge.needs_conversion <=>
               (Len(bridge.data) >= 4 /\ BeginsWithStartCode(bridge.data))
        /\ (WellFormedAvcc(bridge.data) /\ ~BeginsWithStartCode(bridge.data)) =>
               (bridge.needs_conversion /\ BeginsWithStartCode(Unwrap(bridge.sent)))

\* A two-byte NAL behind the length prefix 00 00 00 02 was converted.
C20_Witness ==
    /\ FirstFrameChecked
    /\ WellFormedAvcc(bridge.data)
    /\ ~BeginsWithStartCode(bridge.data)
    /\ bridge.needs_conversion
    /\ bridge.sent = Some(<<0, 0, 0, 1>> \o SubSeq(bridge.data, 5, 6))

\* What both halves of C20 need together: no well-formed AVCC buffer begins with
\* a start code. The length prefix 00 00 00 01 of a one-byte first NAL does.
C20_NoAvccBeginsWithStartCode ==
    FirstFrameChecked => ~(WellFormedAvcc(bridge.data) /\ BeginsWithStartCode(bridge.data))

\* Later frames are handled as the first frame decided.
C20_CheckedOnce ==
    [][bridge.conversion_checked =>
          bridge'.needs_conversion = bridge.needs_conversion]_vars

(***************************************************************************)
(* Claims about the AVCC to Annex-B conversion                             *)
(***************************************************************************)

\* The NALs of the [4-byte length | NAL] tuples of an AVCC buffer from byte i on,
\* up to the first malformed tuple: a zero length, an overrun, a cut prefix.
RECURSIVE AvccNalsFrom(_, _)
AvccNalsFrom(data, i) ==
    IF i + 3 > Len(data) THEN <<>>
    ELSE LET n == data[i] * 16777216 + data[i + 1] * 65536 + data[i + 2] * 256
                    + data[i + 3]
         IN IF n = 0 \/ i + 3 + n > Len(data) THEN <<>>
            ELSE <<SubSeq(data, i + 4, i + 3 + n)>> \o AvccNalsFrom(data, i + 4 + n)

AvccNals(data) == AvccNalsFrom(data, 1)

\* A start code 00 00 01 begins at byte i.
StartCodeAt(data, i) ==
    i >= 1 /\ i + 2 <= Len(data) /\ data[i] = 0 /\ data[i + 1] = 0 /\ data[i + 2] = 1

MinOf(S) == CHOOSE x \in S : \A y \in S : x <= y

\* The Annex-B parse of a buffer from byte i on: a NAL runs from the end of a
\* start code to the next start code; a zero before 00 00 01 is the first byte
\* of the start code 00 00 00 01.
RECURSIVE AnnexbNalsFrom(_, _)
AnnexbNalsFrom(data, i) ==
    LET found == {s \in i..Len(data) : StartCodeAt(data, s)}
    IN IF found = {} THEN <<>>
       ELSE LET s == MinOf(found)
                later == {t \in (s + 3)..Len(data) : StartCodeAt(data, t)}
                next == IF later = {} THEN Len(data) + 1 ELSE MinOf(later)
                last == IF later # {} /\ next - 1 >= s + 3 /\ data[next - 1] = 0
                        THEN next - 2 ELSE next - 1
            IN <<SubSeq(data, s + 3, last)>> \o AnnexbNalsFrom(data, next)

AnnexbNals(data) == AnnexbNalsFrom(data, 1)

\* [00 00 00 01 | NAL] for each NAL, in order.
RECURSIVE StartCoded(_)
StartCoded(nals) ==
    IF nals = <<>> THEN <<>>
    ELSE <<0, 0, 0, 1>> \o Head(nals) \o StartCoded(Tail(nals))

\* The bytes 00 00 01 occur inside the NAL.
StartCodeInside(nal) == \E i \in 1..Len(nal) : StartCodeAt(nal, i)

\* The bridge has converted the frame it holds.
FrameConverted == bridge.needs_conversion /\ IsSome(bridge.sent)

\* C21: for every well-formed AVCC buffer the Annex-B parse of the converted
\* bytes yields the NAL sequence of the input; on a zero or overrunning length
\* the result holds exactly the NALs before the malformed tuple.
C21_ConversionRoundTrip ==
    FrameConverted =>
        /\ WellFormedAvcc(bridge.data) =>
               AnnexbNals(Unwrap(bridge.sent)) = AvccNals(bridge.data)
        /\ ~WellFormedAvcc(bridge.data) =>
               Unwrap(bridge.sent) = StartCoded(AvccNals(bridge.data))

\* C21 as the converter has it: the result is [00 00 00 01 | NAL] for each tuple
\* before the first malformed one, in order; its Annex-B parse yields the NAL
\* sequence of a well-formed input none of whose NALs holds the bytes 00 00 01.
C21_ConversionKeepsNals ==
    FrameConverted =>
        /\ Unwrap(bridge.sent) = StartCoded(AvccNals(bridge.data))
        /\ (WellFormedAvcc(bridge.data)
               /\ \A k \in 1..Len(AvccNals(bridge.data)) :
                      ~StartCodeInside(AvccNals(bridge.data)[k])) =>
               AnnexbNals(Unwrap(bridge.sent)) = AvccNals(bridge.data)

\* A well-formed packet of two NALs, the first ending in zeros, was converted
\* and parses back to its two NALs.
C21_Witness ==
    /\ FrameConverted
    /\ WellFormedAvcc(bridge.data)
    /\ Len(AvccNals(bridge.data)) = 2
    /\ AvccNals(bridge.data)[1] = <<1, 0, 0>>
    /\ AnnexbNals(Unwrap(bridge.sent)) = AvccNals(bridge.data)

\* Two NALs before a zero length were converted, and nothing after it.
C21_StopWitness ==
    /\ FrameConverted
    /\ ~WellFormedAvcc(bridge.data)
    /\ Len(AvccNals(bridge.data)) = 2
    /\ Len(bridge.data) > Len(Unwrap(bridge.sent))

(***************************************************************************)
(* Claims about the audio mixer task                                       *)
(***************************************************************************)

\* Every slot has a source added, and every source has published a frame after
\* its receiver was subscribed.
AllSourcesPublished ==
    \A s \in Slots : s \in mixer.added /\ mixer.published[s] >= 1

\* A sub-task has left its loop.
SubTaskEnded == \E s \in Slots : mixer.sub[s].pc = "done"

\* C22: once every slot has a source that has published frames after its
\* receiver was subscribed, the subscriber of the mixer output eventually
\* receives a mixed frame, however the sub-tasks are scheduled; a pull with no
\* frame ready returns None.
C22_MixerDelivers ==
    /\ AllSourcesPublished ~> (mixer.out_recv >= 1)
    /\ [](mixer.last_pull \in {"none", "None", "Some"})

\* The mixed frame arrives unless a sub-task ended on a lagged receiver.
C22_DeliversUnlessLagged ==
    AllSourcesPublished ~> (mixer.out_recv >= 1 \/ SubTaskEnded)

(***************************************************************************)
(* Claims about the mixer's sub-tasks                                      *)
(***************************************************************************)

\* The sub-tasks of a slot that run and were not told to stop.
LiveSubTasks(s) ==
    {t \in SubTasks : /\ inputs.tasks[t].slot = s
                      /\ inputs.tasks[t].pc = "run"
                      /\ ~inputs.tasks[t].cancelled}

\* C39: the mixer task has at most one live forwarding sub-task per slot, and
\* once RemoveInput(slot) is handled no sub-task forwards into that slot, also
\* when AddInput was sent twice for the slot with no RemoveInput between.
C39_OneSubTaskPerSlot ==
    \A s \in Slots :
        /\ Cardinality(LiveSubTasks(s)) <= 1
        /\ inputs.removed[s] => LiveSubTasks(s) = {}
        /\ inputs.stale = 0

\* It is so for every slot that never got a second AddInput over a held entry.
C39_HoldsWithoutDoubleAdd ==
    \A s \in Slots :
        ~inputs.doubled[s] =>
            /\ Cardinality(LiveSubTasks(s)) <= 1
            /\ inputs.removed[s] => LiveSubTasks(s) = {}

(***************************************************************************)
(* Claims about the Pipe's bridge to a raw sink                            *)
(***************************************************************************)

\* C40: a RawFrame / RawPacket bridge keeps forwarding while its stream yields
\* frames and the sink is open; a sink that is full costs frames at most and
\* never ends the bridge: the task returns only at the end of the stream or on
\* a closed sink.
C40_FullSinkNeverEndsBridge ==
    [][(sink.pc = "run" /\ sink'.pc = "done")
          => (sink'.ended_by = "stream" \/ sink.closed)]_vars

\* What the task does: it returns at the end of the stream or at the first
\* try_send that fails, full or closed, and until then every frame the stream
\* yielded was accepted by the sink.
C40_EndsAtFirstFailedSend ==
    /\ sink.pc = "run" => sink.sent = sink.yielded /\ sink.ended_by = "none"
    /\ sink.pc = "done" =>
          \/ sink.ended_by = "stream" /\ sink.sent = sink.yielded
          \/ sink.ended_by \in {"full", "closed"} /\ sink.sent = sink.yielded - 1

\* A None item of the stream does not end the task.
C40_NoneItemSkipped ==
    [][sink'.nones = sink.nones + 1 => sink'.pc = "run"]_vars

(***************************************************************************)
(* Claims about the Bus API                                                *)
(***************************************************************************)

\* C38: every call of Bus::add_input, remove_input and add_output that was made
\* eventually returns, Ok or Err, whatever the interleaving with Bus::stop and
\* whichever way the handler left its reply sender.
C38_EveryCallReturns ==
    \A c \in Calls : (api.calls[c].pc # "none") ~> (api.calls[c].pc = "returned")

\* Why: a call that waits on an open reply channel has its command in the
\* channel or in the handler of a loop that still runs.
C38_NoCallLeftBehind ==
    \A c \in Calls :
        (api.calls[c].pc = "wait" /\ api.calls[c].reply = "open")
            => /\ api.loop # "exited"
               /\ api.handling = c \/ \E i \in 1..Len(api.queue) : api.queue[i] = c

\* A returned call has Ok only from a handler that sent Ok.
C38_ResultIsTheReply ==
    \A c \in Calls :
        api.calls[c].pc = "returned" =>
            /\ api.calls[c].result \in {"Ok", "Err"}
            /\ api.calls[c].result = "Ok" <=> api.calls[c].reply = "sent_ok"

\* Bus::stop overtook a queued command, and its caller has returned with the
\* RecvError; another call found the channel closed; a third was answered.
C38_Witness ==
    /\ api.loop = "exited"
    /\ \E c \in Calls : api.calls[c].pc = "returned" /\ api.calls[c].reply = "closed"
    /\ \E c \in Calls : api.calls[c].pc = "returned" /\ api.calls[c].reply = "open"
    /\ \E c \in Calls : api.calls[c].pc = "returned" /\ api.calls[c].reply = "sent_ok"

(***************************************************************************)
(* Claims about shared packets                                             *)
(***************************************************************************)

\* Subscriber s holds the item as it received it: it has not called get_mut.
HoldsAsReceived(s) == shared.subs[s].pc = "hold" /\ ~shared.subs[s].own

\* C32: copy-on-write isolation: whatever another subscriber writes into the
\* packet it received, a subscriber that holds the same published item, and the
\* channel's own copy for those still to receive it, show the stream index, PTS,
\* DTS, duration and payload that were published.
C32_CopyOnWriteIsolation ==
    /\ \A s \in Subscribers :
           HoldsAsReceived(s) => shared.val[shared.subs[s].cell] = PublishedPacket
    /\ shared.slot => shared.val[0] = PublishedPacket

\* One subscriber has rewritten its copy while another still holds the item as
\* received.
C32_Witness ==
    \E s, t \in Subscribers :
        /\ s # t
        /\ shared.subs[s].own /\ shared.subs[s].writes = Len(WriteOrder)
        /\ shared.val[shared.subs[s].cell].index # PublishedPacket.index
        /\ HoldsAsReceived(t)

\* The last owner wrote into the published allocation itself.
C32_InPlaceWitness ==
    \E s \in Subscribers :
        /\ shared.subs[s].in_place
        /\ shared.subs[s].cell = 0
        /\ shared.val[0] # PublishedPacket

\* The strong count of an allocation is the number of RawPackets pointing to it.
C32_CountsOwners ==
    \A c \in Cells :
        shared.rc[c] = Cardinality({s \in Subscribers :
                                       shared.subs[s].pc = "hold" /\ shared.subs[s].cell = c})
                       + (IF c = 0 /\ shared.slot THEN 1 ELSE 0)

(***************************************************************************)
(* Specifications                                                          *)
(***************************************************************************)

InitMux ==
    /\ avoutput = AvOutputNew
    /\ writer = WriterNew
    /\ muxed \in {MuxedNew(d) : d \in {"AvOutput", "AvOutputStreamWriter"}}
    /\ enc_up = EncUpNew
    /\ enc_fwd = EncFwdNew
    /\ enc_queue = <<>>
    /\ enc_loop = EncLoopNew
    /\ enc_cancel = FALSE
    /\ enc_out = BcNew
    /\ pipe_kind = "File"
    /\ reader = ReaderNew
    /\ in_ch = BcNew
    /\ mux_task = MuxTaskNew(FALSE)
    /\ dec_fwd = SubNew(FALSE)
    /\ dec_queue = <<>>
    /\ dec_loop = DecLoopNew(FALSE)
    /\ adapter = SubNew(FALSE)
    /\ consumer = ConsumerNew
    /\ bus_state = BusStateNew
    /\ handler = HandlerIdle
    /\ bus_log = BusLogNew
    /\ bridge = BridgeNew
    /\ mixer = MixerNew
    /\ shared = SharedNew
    /\ api = ApiNew
    /\ inputs = InputsNew
    /\ sink = SinkNew

InitEnc ==
    /\ avoutput = AvOutputNew
    /\ writer = WriterNew
    /\ muxed = MuxedNew("AvOutput")
    /\ enc_up = [EncUpNew EXCEPT !.timed = FALSE]
    /\ enc_fwd = EncFwdNew
    /\ enc_queue = <<>>
    /\ enc_loop = EncLoopNew
    /\ enc_cancel = FALSE
    /\ enc_out = BcNew
    /\ pipe_kind = "Encoded"
    /\ reader = ReaderNew
    /\ in_ch = BcNew
    /\ mux_task = MuxTaskNew(FALSE)
    /\ dec_fwd = SubNew(FALSE)
    /\ dec_queue = <<>>
    /\ dec_loop = DecLoopNew(FALSE)
    /\ adapter = SubNew(FALSE)
    /\ consumer = ConsumerNew
    /\ bus_state = BusStateNew
    /\ handler = HandlerIdle
    /\ bus_log = BusLogNew
    /\ bridge = BridgeNew
    /\ mixer = MixerNew
    /\ shared = SharedNew
    /\ api = ApiNew
    /\ inputs = InputsNew
    /\ sink = SinkNew

\* One output built by AddOutput under two-phase start: every subscription of its
\* subgraph is registered, the reader has not read yet.
InitPipe ==
    /\ avoutput = AvOutputNew
    /\ writer = WriterNew
    /\ muxed = MuxedNew("AvOutput")
    /\ pipe_kind \in PipeKinds
    /\ enc_up = EncUpNew
    /\ enc_fwd = [EncFwdNew EXCEPT !.pc = IF HasEncoder(pipe_kind) THEN "recv" ELSE "none"]
    /\ enc_queue = <<>>
    /\ enc_loop = [EncLoopNew EXCEPT !.pc = IF HasEncoder(pipe_kind) THEN "run" ELSE "none"]
    /\ enc_cancel = FALSE
    /\ enc_out = BcNew
    /\ reader = ReaderNew
    /\ in_ch = BcNew
    /\ mux_task = MuxTaskNew(HasMuxTask(pipe_kind))
    /\ dec_fwd = SubNew(HasDecoder(pipe_kind))
    /\ dec_queue = <<>>
    /\ dec_loop = DecLoopNew(HasDecoder(pipe_kind))
    /\ adapter = SubNew(HasAdapter(pipe_kind))
    /\ consumer = ConsumerNew
    /\ bus_state = BusStateNew
    /\ handler = HandlerIdle
    /\ bus_log = BusLogNew
    /\ bridge = BridgeNew
    /\ mixer = MixerNew
    /\ shared = SharedNew
    /\ api = ApiNew
    /\ inputs = InputsNew
    /\ sink = SinkNew

\* InitPipe with loops that tell a drain ended by an error from one ended by
\* Ok(None).
InitPipeFaults ==
    /\ avoutput = AvOutputNew
    /\ writer = WriterNew
    /\ muxed = MuxedNew("AvOutput")
    /\ pipe_kind \in PipeKinds
    /\ enc_up = EncUpNew
    /\ enc_fwd = [EncFwdNew EXCEPT !.pc = IF HasEncoder(pipe_kind) THEN "recv" ELSE "none"]
    /\ enc_queue = <<>>
    /\ enc_loop = [EncLoopNew EXCEPT !.pc = IF HasEncoder(pipe_kind) THEN "run" ELSE "none",
                                     !.faults = TRUE]
    /\ enc_cancel = FALSE
    /\ enc_out = BcNew
    /\ reader = ReaderNew
    /\ in_ch = BcNew
    /\ mux_task = MuxTaskNew(HasMuxTask(pipe_kind))
    /\ dec_fwd = SubNew(HasDecoder(pipe_kind))
    /\ dec_queue = <<>>
    /\ dec_loop = [DecLoopNew(HasDecoder(pipe_kind)) EXCEPT !.faults = TRUE]
    /\ adapter = SubNew(HasAdapter(pipe_kind))
    /\ consumer = ConsumerNew
    /\ bus_state = BusStateNew
    /\ handler = HandlerIdle
    /\ bus_log = BusLogNew
    /\ bridge = BridgeNew
    /\ mixer = MixerNew
    /\ shared = SharedNew
    /\ api = ApiNew
    /\ inputs = InputsNew
    /\ sink = SinkNew

\* A decoding or encoding output.
InitWorkers ==
    /\ avoutput = AvOutputNew
    /\ writer = WriterNew
    /\ muxed = MuxedNew("AvOutput")
    /\ pipe_kind \in WorkerKinds
    /\ enc_up = EncUpNew
    /\ enc_fwd = [EncFwdNew EXCEPT !.pc = IF HasEncoder(pipe_kind) THEN "recv" ELSE "none"]
    /\ enc_queue = <<>>
    /\ enc_loop = [EncLoopNew EXCEPT !.pc = IF HasEncoder(pipe_kind) THEN "run" ELSE "none"]
    /\ enc_cancel = FALSE
    /\ enc_out = BcNew
    /\ reader = ReaderNew
    /\ in_ch = BcNew
    /\ mux_task = MuxTaskNew(HasMuxTask(pipe_kind))
    /\ dec_fwd = SubNew(HasDecoder(pipe_kind))
    /\ dec_queue = <<>>
    /\ dec_loop = DecLoopNew(HasDecoder(pipe_kind))
    /\ adapter = SubNew(HasAdapter(pipe_kind))
    /\ consumer = ConsumerNew
    /\ bus_state = BusStateNew
    /\ handler = HandlerIdle
    /\ bus_log = BusLogNew
    /\ bridge = BridgeNew
    /\ mixer = MixerNew
    /\ shared = SharedNew
    /\ api = ApiNew
    /\ inputs = InputsNew
    /\ sink = SinkNew

\* A Bus after Bus::new: no input, no output, the handler idle.
InitBus ==
    /\ avoutput = AvOutputNew
    /\ writer = WriterNew
    /\ muxed = MuxedNew("AvOutput")
    /\ enc_up = EncUpNew
    /\ enc_fwd = EncFwdNew
    /\ enc_queue = <<>>
    /\ enc_loop = EncLoopNew
    /\ enc_cancel = FALSE
    /\ enc_out = BcNew
    /\ pipe_kind = "File"
    /\ reader = ReaderNew
    /\ in_ch = BcNew
    /\ mux_task = MuxTaskNew(FALSE)
    /\ dec_fwd = SubNew(FALSE)
    /\ dec_queue = <<>>
    /\ dec_loop = DecLoopNew(FALSE)
    /\ adapter = SubNew(FALSE)
    /\ consumer = ConsumerNew
    /\ bus_state = BusStateNew
    /\ handler = HandlerIdle
    /\ bus_log = BusLogNew
    /\ bridge = BridgeNew
    /\ mixer = MixerNew
    /\ shared = SharedNew
    /\ api = ApiNew
    /\ inputs = InputsNew
    /\ sink = SinkNew

\* InitBus with a log that records the encode config the encoder was built with.
InitBusReuse ==
    /\ avoutput = AvOutputNew
    /\ writer = WriterNew
    /\ muxed = MuxedNew("AvOutput")
    /\ enc_up = EncUpNew
    /\ enc_fwd = EncFwdNew
    /\ enc_queue = <<>>
    /\ enc_loop = EncLoopNew
    /\ enc_cancel = FALSE
    /\ enc_out = BcNew
    /\ pipe_kind = "File"
    /\ reader = ReaderNew
    /\ in_ch = BcNew
    /\ mux_task = MuxTaskNew(FALSE)
    /\ dec_fwd = SubNew(FALSE)
    /\ dec_queue = <<>>
    /\ dec_loop = DecLoopNew(FALSE)
    /\ adapter = SubNew(FALSE)
    /\ consumer = ConsumerNew
    /\ bus_state = BusStateNew
    /\ handler = HandlerIdle
    /\ bus_log = [BusLogNew EXCEPT !.track_encode = TRUE]
    /\ bridge = BridgeNew
    /\ mixer = MixerNew
    /\ shared = SharedNew
    /\ api = ApiNew
    /\ inputs = InputsNew
    /\ sink = SinkNew

\* The output muxers under any sequence of calls.
SpecMux == InitMux /\ [][MuxNext]_vars

\* The encoder worker with a producer upstream, with and without stop().
SpecEnc == InitEnc /\ [][EncNext]_vars

\* The encoder worker never cancelled; its tasks and its blocking thread keep
\* being scheduled.
SpecEncLive ==
    /\ InitEnc /\ [][EncNextNoStop]_vars
    /\ WF_vars(EncForwarderRecv)
    /\ WF_vars(EncForwarderSendReturns)
    /\ WF_vars(\E send_ok \in BOOLEAN, packets \in 0..MaxFrames :
                  EncoderLoopStep(send_ok, packets))

\* One output's pipeline, the input removed or the Bus stopped at any moment or
\* never.
SpecPipe == InitPipe /\ [][PipeNext]_vars

SpecPipeFaults == InitPipeFaults /\ [][PipeNext]_vars

SpecWorkers == InitWorkers /\ [][WorkersNext]_vars

\* The same with the input never removed, every task and thread scheduled again
\* and again, and read_packet returning each time.
SpecPipeLive ==
    /\ InitPipe /\ [][PipeNextNoRemove]_vars
    /\ WF_vars(ReaderBeginRead)
    /\ WF_vars((\E stream \in PipeStreams : ReaderPublish(stream)) \/ ReaderEof)
    /\ WF_vars(MuxTaskRecv)
    /\ WF_vars(DecForwarderRecv)
    /\ WF_vars(\E send_ok \in BOOLEAN, frames \in 0..MaxPackets :
                  DecoderLoopStep(send_ok, frames))
    /\ WF_vars(\E conv_ok \in BOOLEAN : AdapterRecv(conv_ok))
    /\ WF_vars(EncForwarderRecv)
    /\ WF_vars(EncForwarderSendReturns)
    /\ WF_vars(\E send_ok \in BOOLEAN, packets \in 0..MaxPackets :
                  EncoderLoopStep(send_ok, packets))
    /\ WF_vars(ConsumerNextMsg)
    /\ WF_vars(ConsumerEmptyStream)
    /\ WF_vars(ConsumerNextItem)

\* One output's pipeline with the input removed or the Bus stopped at any
\* moment, every task and thread scheduled again and again; the command itself
\* may never come.
SpecPipeRemoveLive ==
    /\ InitPipe /\ [][PipeNext]_vars
    /\ WF_vars(ReaderBeginRead)
    /\ WF_vars(ReaderCancelled)
    /\ WF_vars((\E stream \in PipeStreams : ReaderPublish(stream)) \/ ReaderEof)
    /\ WF_vars(MuxTaskRecv)
    /\ WF_vars(DecForwarderRecv)
    /\ WF_vars(DecForwarderJoin)
    /\ WF_vars(\E send_ok \in BOOLEAN, frames \in 0..MaxPackets :
                  DecoderLoopStep(send_ok, frames))
    /\ WF_vars(\E conv_ok \in BOOLEAN : AdapterRecv(conv_ok))
    /\ WF_vars(EncForwarderRecv)
    /\ WF_vars(EncForwarderSendReturns)
    /\ WF_vars(\E send_ok \in BOOLEAN, packets \in 0..MaxPackets :
                  EncoderLoopStep(send_ok, packets))
    /\ WF_vars(ConsumerNextMsg)
    /\ WF_vars(ConsumerEmptyStream)
    /\ WF_vars(ConsumerNextItem)

\* The command loop under any sequence of commands, with the reader of the
\* started input task running beside it.
SpecBus == InitBus /\ [][BusNext]_vars

SpecBusReuse == InitBusReuse /\ [][BusNext]_vars

InitBsf ==
    /\ avoutput = AvOutputNew
    /\ writer = WriterNew
    /\ muxed = MuxedNew("AvOutput")
    /\ enc_up = EncUpNew
    /\ enc_fwd = EncFwdNew
    /\ enc_queue = <<>>
    /\ enc_loop = EncLoopNew
    /\ enc_cancel = FALSE
    /\ enc_out = BcNew
    /\ pipe_kind = "File"
    /\ reader = ReaderNew
    /\ in_ch = BcNew
    /\ mux_task = MuxTaskNew(FALSE)
    /\ dec_fwd = SubNew(FALSE)
    /\ dec_queue = <<>>
    /\ dec_loop = DecLoopNew(FALSE)
    /\ adapter = SubNew(FALSE)
    /\ consumer = ConsumerNew
    /\ bus_state = BusStateNew
    /\ handler = HandlerIdle
    /\ bus_log = BusLogNew
    /\ bridge = BridgeNew
    /\ mixer = MixerNew
    /\ shared = SharedNew
    /\ api = ApiNew
    /\ inputs = InputsNew
    /\ sink = SinkNew

\* The bridge handling the frames of one stream.
SpecBsf == InitBsf /\ [][BsfNext]_vars

InitConv ==
    /\ avoutput = AvOutputNew
    /\ writer = WriterNew
    /\ muxed = MuxedNew("AvOutput")
    /\ enc_up = EncUpNew
    /\ enc_fwd = EncFwdNew
    /\ enc_queue = <<>>
    /\ enc_loop = EncLoopNew
    /\ enc_cancel = FALSE
    /\ enc_out = BcNew
    /\ pipe_kind = "File"
    /\ reader = ReaderNew
    /\ in_ch = BcNew
    /\ mux_task = MuxTaskNew(FALSE)
    /\ dec_fwd = SubNew(FALSE)
    /\ dec_queue = <<>>
    /\ dec_loop = DecLoopNew(FALSE)
    /\ adapter = SubNew(FALSE)
    /\ consumer = ConsumerNew
    /\ bus_state = BusStateNew
    /\ handler = HandlerIdle
    /\ bus_log = BusLogNew
    /\ bridge = BridgeConverting
    /\ mixer = MixerNew
    /\ shared = SharedNew
    /\ api = ApiNew
    /\ inputs = InputsNew
    /\ sink = SinkNew

\* The bridge of an AVCC stream converting a frame.
SpecConv == InitConv /\ [][ConvNext]_vars

InitMix ==
    /\ avoutput = AvOutputNew
    /\ writer = WriterNew
    /\ muxed = MuxedNew("AvOutput")
    /\ enc_up = EncUpNew
    /\ enc_fwd = EncFwdNew
    /\ enc_queue = <<>>
    /\ enc_loop = EncLoopNew
    /\ enc_cancel = FALSE
    /\ enc_out = BcNew
    /\ pipe_kind = "File"
    /\ reader = ReaderNew
    /\ in_ch = BcNew
    /\ mux_task = MuxTaskNew(FALSE)
    /\ dec_fwd = SubNew(FALSE)
    /\ dec_queue = <<>>
    /\ dec_loop = DecLoopNew(FALSE)
    /\ adapter = SubNew(FALSE)
    /\ consumer = ConsumerNew
    /\ bus_state = BusStateNew
    /\ handler = HandlerIdle
    /\ bus_log = BusLogNew
    /\ bridge = BridgeNew
    /\ mixer = MixerNew
    /\ shared = SharedNew
    /\ api = ApiNew
    /\ inputs = InputsNew
    /\ sink = SinkNew

\* One packet published to NumSubscribers subscribers.
InitShared ==
    /\ avoutput = AvOutputNew
    /\ writer = WriterNew
    /\ muxed = MuxedNew("AvOutput")
    /\ enc_up = EncUpNew
    /\ enc_fwd = EncFwdNew
    /\ enc_queue = <<>>
    /\ enc_loop = EncLoopNew
    /\ enc_cancel = FALSE
    /\ enc_out = BcNew
    /\ pipe_kind = "File"
    /\ reader = ReaderNew
    /\ in_ch = BcNew
    /\ mux_task = MuxTaskNew(FALSE)
    /\ dec_fwd = SubNew(FALSE)
    /\ dec_queue = <<>>
    /\ dec_loop = DecLoopNew(FALSE)
    /\ adapter = SubNew(FALSE)
    /\ consumer = ConsumerNew
    /\ bus_state = BusStateNew
    /\ handler = HandlerIdle
    /\ bus_log = BusLogNew
    /\ bridge = BridgeNew
    /\ mixer = MixerNew
    /\ shared = SharedNew
    /\ api = ApiNew
    /\ inputs = InputsNew
    /\ sink = SinkNew

\* The subscribers of one published packet.
SpecShared == InitShared /\ [][SharedNext]_vars

\* A started mixer task, no input added.
InitMixCmd ==
    /\ avoutput = AvOutputNew
    /\ writer = WriterNew
    /\ muxed = MuxedNew("AvOutput")
    /\ enc_up = EncUpNew
    /\ enc_fwd = EncFwdNew
    /\ enc_queue = <<>>
    /\ enc_loop = EncLoopNew
    /\ enc_cancel = FALSE
    /\ enc_out = BcNew
    /\ pipe_kind = "File"
    /\ reader = ReaderNew
    /\ in_ch = BcNew
    /\ mux_task = MuxTaskNew(FALSE)
    /\ dec_fwd = SubNew(FALSE)
    /\ dec_queue = <<>>
    /\ dec_loop = DecLoopNew(FALSE)
    /\ adapter = SubNew(FALSE)
    /\ consumer = ConsumerNew
    /\ bus_state = BusStateNew
    /\ handler = HandlerIdle
    /\ bus_log = BusLogNew
    /\ bridge = BridgeNew
    /\ mixer = MixerNew
    /\ shared = SharedNew
    /\ api = ApiNew
    /\ inputs = InputsNew
    /\ sink = SinkNew

SpecMixCmd == InitMixCmd /\ [][MixCmdNext]_vars

\* A bridge spawned by Pipe::start on the stream of its output.
InitSink ==
    /\ avoutput = AvOutputNew
    /\ writer = WriterNew
    /\ muxed = MuxedNew("AvOutput")
    /\ enc_up = EncUpNew
    /\ enc_fwd = EncFwdNew
    /\ enc_queue = <<>>
    /\ enc_loop = EncLoopNew
    /\ enc_cancel = FALSE
    /\ enc_out = BcNew
    /\ pipe_kind = "File"
    /\ reader = ReaderNew
    /\ in_ch = BcNew
    /\ mux_task = MuxTaskNew(FALSE)
    /\ dec_fwd = SubNew(FALSE)
    /\ dec_queue = <<>>
    /\ dec_loop = DecLoopNew(FALSE)
    /\ adapter = SubNew(FALSE)
    /\ consumer = ConsumerNew
    /\ bus_state = BusStateNew
    /\ handler = HandlerIdle
    /\ bus_log = BusLogNew
    /\ bridge = BridgeNew
    /\ mixer = MixerNew
    /\ shared = SharedNew
    /\ api = ApiNew
    /\ inputs = InputsNew
    /\ sink = SinkNew

SpecSink == InitSink /\ [][SinkNext]_vars

\* A new Bus, no call made.
InitApi ==
    /\ avoutput = AvOutputNew
    /\ writer = WriterNew
    /\ muxed = MuxedNew("AvOutput")
    /\ enc_up = EncUpNew
    /\ enc_fwd = EncFwdNew
    /\ enc_queue = <<>>
    /\ enc_loop = EncLoopNew
    /\ enc_cancel = FALSE
    /\ enc_out = BcNew
    /\ pipe_kind = "File"
    /\ reader = ReaderNew
    /\ in_ch = BcNew
    /\ mux_task = MuxTaskNew(FALSE)
    /\ dec_fwd = SubNew(FALSE)
    /\ dec_queue = <<>>
    /\ dec_loop = DecLoopNew(FALSE)
    /\ adapter = SubNew(FALSE)
    /\ consumer = ConsumerNew
    /\ bus_state = BusStateNew
    /\ handler = HandlerIdle
    /\ bus_log = BusLogNew
    /\ bridge = BridgeNew
    /\ mixer = MixerNew
    /\ shared = SharedNew
    /\ api = ApiNew
    /\ inputs = InputsNew
    /\ sink = SinkNew

\* The callers and the loop are tasks of the runtime: each is run again when it
\* can proceed. Nobody has to make a call or to stop the Bus.
SpecApi ==
    /\ InitApi /\ [][ApiNext]_vars
    /\ \A c \in Calls : WF_vars(ApiSend(c)) /\ WF_vars(ApiReturn(c))
    /\ WF_vars(LoopRecv)
    /\ WF_vars(\E outcome \in ReplyOutcomes : LoopHandled(outcome))
    /\ WF_vars(LoopCancelled)

\* A running input task and no output yet: the outputs are added while it reads
\* or after it has finished.
InitLate ==
    /\ avoutput = AvOutputNew
    /\ writer = WriterNew
    /\ muxed = MuxedNew("AvOutput")
    /\ pipe_kind \in {k \in PipeKinds : HasMuxTask(k)}
    /\ enc_up = EncUpNew
    /\ enc_fwd = [EncFwdNew EXCEPT !.pc = IF HasEncoder(pipe_kind) THEN "recv" ELSE "none"]
    /\ enc_queue = <<>>
    /\ enc_loop = [EncLoopNew EXCEPT !.pc = IF HasEncoder(pipe_kind) THEN "run" ELSE "none"]
    /\ enc_cancel = FALSE
    /\ enc_out = BcNew
    /\ reader = ReaderNew
    /\ in_ch = BcNew
    /\ mux_task = MuxTaskNew(FALSE)
    /\ dec_fwd = SubNew(HasDecoder(pipe_kind))
    /\ dec_queue = <<>>
    /\ dec_loop = DecLoopNew(HasDecoder(pipe_kind))
    /\ adapter = SubNew(HasAdapter(pipe_kind))
    /\ consumer = ConsumerNew
    /\ bus_state = BusStateNew
    /\ handler = HandlerIdle
    /\ bus_log = BusLogNew
    /\ bridge = BridgeNew
    /\ mixer = MixerNew
    /\ shared = SharedNew
    /\ api = ApiNew
    /\ inputs = InputsNew
    /\ sink = SinkNew

\* The reader reads to the end, a handled AddOutput builds its output and the
\* tasks and the consumer keep running; nothing forces a RemoveInput.
SpecLate ==
    /\ InitLate /\ [][LateNext]_vars
    /\ WF_vars(ReaderBeginRead)
    /\ WF_vars(ReaderCancelled)
    /\ WF_vars((\E stream \in PipeStreams : ReaderPublish(stream)) \/ ReaderEof)
    /\ WF_vars(MuxTaskSubscribe)
    /\ WF_vars(MuxTaskRecv)
    /\ WF_vars(ConsumerNextMsg)
    /\ WF_vars(ConsumerEmptyStream)

\* The started mixer task, its callers and sources, any interleaving.
SpecMix == InitMix /\ [][MixNext]_vars

\* The same with every spawned task, the main loop, the output loop and the
\* subscriber scheduled again and again; callers and sources go at their pace.
SpecMixLive ==
    /\ InitMix
    /\ [][MixNext]_vars
    /\ WF_vars(MixHandleAddInput)
    /\ \A s \in Slots : WF_vars(MixSubRecv(s))
    /\ WF_vars(MixPushAudio)
    /\ WF_vars(MixPull)
    /\ WF_vars(MixOutRecv)

====
